---- MODULE Spec2Model ----
(***************************************************************************)
(* Network membership and address allocation of the VPN control plane:     *)
(* the wireguard_network_device link table, the allocator                   *)
(* Device::assign_next_network_ip / Device::assign_network_ips, and the    *)
(* handlers that drive them.                                                *)
(*                                                                          *)
(* An address is a natural number; an address block (IpNetwork) is its      *)
(* network address and its size, so 10.0.0.0/30 is Block(0, 4) with host    *)
(* addresses 1 and 2 and broadcast address 3.                               *)
(***************************************************************************)
EXTENDS Integers, Sequences, FiniteSets, TLC

\* ------------------------------------------------------------------ bounds
NumDevices == 3
NumTx == 2
NumKeys == 5
MaxTime == 6
AddrLimit == 8

\* Device ids. The device with the highest id is of type Network (a
\* standalone device placed by an administrator), the others of type User.
Device == 1..NumDevices
NetworkDevice == {NumDevices}
UserDevice == Device \ NetworkDevice

\* The allocator works on one network at a time and reads only that network's
\* links: the model follows one network.
Net == {1}
Addr == 0..(AddrLimit - 1)

None == "None"

\* ------------------------------------------------------------ address blocks
\* IpNetwork: the block's network address and the number of addresses in it.
Block(base, size) == [network |-> base, size |-> size]

Network(b) == b.network
Broadcast(b) == b.network + b.size - 1

\* IpNetwork::contains
Contains(b, ip) == Network(b) <= ip /\ ip <= Broadcast(b)

\* `for ip in address`: every address of the block, network address first,
\* broadcast address last.
BlockIps(b) == [i \in 1..b.size |-> b.network + i - 1]

BlockSizes == {4, 8}

Blocks ==
    {Block(base, size) : base \in Addr, size \in BlockSizes} \cap
    {b \in [network : Addr, size : BlockSizes] :
        b.network % b.size = 0 /\ Broadcast(b) \in Addr}

\* WireguardNetwork.address: one block, or two disjoint blocks in ascending
\* order.
Layouts ==
    {<<b>> : b \in Blocks} \cup
    {p \in Blocks \X Blocks : Broadcast(p[1]) < Network(p[2])}

\* ------------------------------------------------------------------- state
VARIABLES
    wireguard_network,         \* existing networks: id -> [address]
    wireguard_network_device,  \* the link table: a set of rows
    last,                      \* the operation that has just run and its
                               \* outcome, until the caller has taken it
    tx,                        \* the open database transactions of
                               \* concurrent allocator calls
    scenario,                  \* the position in the /30 scenario of the
                               \* allocator's tests
    device,                    \* the device table: a set of rows
    request,                   \* the add_device requests under way
    events,                    \* the gateway events the operation that has
                               \* just run sent, in order
    gateway_state,             \* the gateway registry: a set of handles
    lock,                      \* the mutex around the registry
    handler                    \* the request followed step by step

vars == <<wireguard_network, wireguard_network_device, last, tx, scenario,
          device, request, events, gateway_state, lock, handler>>

\* The gateway registry, its lock and the request that is followed through it.
gatewayVars == <<gateway_state, lock, handler>>

\* Mutex<GatewayMap> as Arc::new(Mutex::new(..)) leaves it: not held, not
\* poisoned.
Unlocked == [held |-> FALSE, poisoned |-> FALSE]

\* No request is being followed.
NoHandler ==
    [op |-> "idle", pc |-> "idle", network_id |-> 0, connected |-> FALSE,
     gateways |-> {}, status |-> 0]

\* WireguardNetworkDevice::new
NewLink(network_id, device_id, ips) ==
    [wireguard_network_id |-> network_id,
     wireguard_ips |-> ips,
     device_id |-> device_id,
     preshared_key |-> None,
     is_authorized |-> FALSE,
     authorized_at |-> None]

SeqToSet(s) == {s[i] : i \in DOMAIN s}

\* WireguardNetworkDevice::all_for_network
AllForNetwork(store, network_id) ==
    {r \in store : r.wireguard_network_id = network_id}

\* WireguardNetworkDevice::find
Find(store, device_id, network_id) ==
    {r \in store : r.device_id = device_id /\ r.wireguard_network_id = network_id}

\* An insert without the ON CONFLICT clause and without the key.
InsertAlways(store, row) == store \cup {row}

\* WireguardNetworkDevice::insert: INSERT ... ON CONFLICT ON CONSTRAINT
\* device_network DO UPDATE SET wireguard_ips, is_authorized.
Insert(store, row) ==
    LET old == Find(store, row.device_id, row.wireguard_network_id)
    IN  IF old = {}
        THEN store \cup {row}
        ELSE (store \ old) \cup
             {[r EXCEPT !.wireguard_ips = row.wireguard_ips,
                        !.is_authorized = row.is_authorized] : r \in old}

\* WireguardNetworkDevice::update: UPDATE ... SET wireguard_ips, is_authorized,
\* authorized_at, preshared_key WHERE device_id = $1 AND wireguard_network_id = $2.
Update(store, row) ==
    {IF r.device_id = row.device_id /\ r.wireguard_network_id = row.wireguard_network_id
     THEN [r EXCEPT !.wireguard_ips = row.wireguard_ips,
                    !.is_authorized = row.is_authorized,
                    !.authorized_at = row.authorized_at,
                    !.preshared_key = row.preshared_key]
     ELSE r : r \in store}

\* A delete that removes nothing.
DeleteNothing(store, device_id, network_id) == store

\* WireguardNetworkDevice::delete
Delete(store, device_id, network_id) ==
    store \ Find(store, device_id, network_id)

Min(S) == CHOOSE x \in S : \A y \in S : x <= y

\* ------------------------------------------------------------- the allocator
\* WireguardNetwork::can_assign_ips for one address: it lies in a block of the
\* network, is neither that block's network nor its broadcast address, and no
\* other device's link in the network holds it.
CanAssignIp(store, network_id, address, ip, device_id) ==
    /\ \E i \in DOMAIN address :
          /\ Contains(address[i], ip)
          /\ ip # Network(address[i])
          /\ ip # Broadcast(address[i])
    /\ \A r \in AllForNetwork(store, network_id) :
          ip \in SeqToSet(r.wireguard_ips) => r.device_id = device_id

CanAssignIps(store, network_id, address, ips, device_id) ==
    \A k \in DOMAIN ips : CanAssignIp(store, network_id, address, ips[k], device_id)

\* A loop that never keeps a current address.
KeptIpNever(block, current_ips) == <<>>

\* An Option<IpAddr> is a sequence of length 0 (None) or 1 (Some).
\* current_ips.and_then(|ips| ips.iter().find(|ip| address.contains(**ip))):
\* the first current address the block contains. No current_ips (None) and an
\* empty slice both find nothing, so None is the empty sequence.
KeptIp(block, current_ips) ==
    LET idx == {k \in DOMAIN current_ips : Contains(block, current_ips[k])}
    IN  IF idx = {} THEN <<>> ELSE <<current_ips[Min(idx)]>>

\* A scan that takes the first address of the block that is not reserved,
\* without asking can_assign_ips.
PickedUnchecked(store, network_id, address, block, device_id, reserved) ==
    LET ips == BlockIps(block)
        ok == {k \in DOMAIN ips : ips[k] \notin reserved}
    IN  IF ok = {} THEN <<>> ELSE <<ips[Min(ok)]>>

\* A scan that does not look at reserved_ips.
PickedIgnoringReserved(store, network_id, address, block, device_id, reserved) ==
    LET ips == BlockIps(block)
        ok == {k \in DOMAIN ips :
                  CanAssignIps(store, network_id, address, <<ips[k]>>, device_id)}
    IN  IF ok = {} THEN <<>> ELSE <<ips[Min(ok)]>>

\* A scan that takes the last address it may assign, not the first.
PickedHighest(store, network_id, address, block, device_id, reserved) ==
    LET ips == BlockIps(block)
        ok == {k \in DOMAIN ips :
                  /\ CanAssignIps(store, network_id, address, <<ips[k]>>, device_id)
                  /\ ips[k] \notin reserved}
    IN  IF ok = {} THEN <<>> ELSE <<ips[CHOOSE k \in ok : \A j \in ok : j <= k]>>

\* The scan of one block: the first address, in the block's order, that
\* can_assign_ips accepts and that is not reserved.
Picked(store, network_id, address, block, device_id, reserved) ==
    LET ips == BlockIps(block)
        ok == {k \in DOMAIN ips :
                  /\ CanAssignIps(store, network_id, address, <<ips[k]>>, device_id)
                  /\ ips[k] \notin reserved}
    IN  IF ok = {} THEN <<>> ELSE <<ips[Min(ok)]>>

\* One iteration of the loop over network.address.
BlockIp(store, network_id, address, block, device_id, reserved, current_ips) ==
    LET kept == KeptIp(block, current_ips)
    IN  IF kept # <<>>
        THEN kept
        ELSE Picked(store, network_id, address, block, device_id, reserved)

\* Addresses of the network held by links of other devices, at call time.
Taken(store, network_id, device_id) ==
    UNION {SeqToSet(r.wireguard_ips) :
              r \in {x \in AllForNetwork(store, network_id) : x.device_id # device_id}}

\* The record of one allocator call: its inputs, the addresses other devices
\* held when it ran, and its result.
Call(fn, store, device_id, network_id, address, reserved, current_ips, res, ips) ==
    [fn |-> fn, device |-> device_id, network |-> network_id, address |-> address,
     taken |-> Taken(store, network_id, device_id),
     reserved |-> reserved, current |-> current_ips, res |-> res, ips |-> ips]

\* Device::assign_next_network_ip. reserved_ips.unwrap_or_default() makes no
\* reserved_ips the empty set. The result: res, the returned link (a sequence
\* of length 0 or 1), the store afterwards and the call's record.
\* The loop over network.address from block i on: ips holds the addresses
\* chosen for the blocks before i. The first block without an address ends
\* it with CannotCreate; after the last block the link is inserted.
RECURSIVE AssignFromBlock(_, _, _, _, _, _, _, _)
AssignFromBlock(store, device_id, network_id, address, reserved, current_ips, i, ips) ==
    IF i > Len(address)
    THEN [res |-> "Ok",
          link |-> <<NewLink(network_id, device_id, ips)>>,
          store |-> Insert(store, NewLink(network_id, device_id, ips)),
          call |-> Call("assign_next_network_ip", store, device_id, network_id,
                        address, reserved, current_ips, "Ok", ips)]
    ELSE IF BlockIp(store, network_id, address, address[i], device_id,
                    reserved, current_ips) = <<>>
    THEN [res |-> "CannotCreate", link |-> <<>>, store |-> store,
          call |-> Call("assign_next_network_ip", store, device_id, network_id,
                        address, reserved, current_ips, "CannotCreate", <<>>)]
    ELSE AssignFromBlock(store, device_id, network_id, address, reserved, current_ips,
                         i + 1,
                         ips \o BlockIp(store, network_id, address, address[i],
                                        device_id, reserved, current_ips))

\* An allocator that, when a block has no address, writes a link without
\* addresses before it fails.
AssignNextNetworkIpPartial(store, device_id, network_id, address, reserved, current_ips) ==
    LET a == AssignFromBlock(store, device_id, network_id, address, reserved,
                             current_ips, 1, <<>>)
    IN  IF a.res = "Ok"
        THEN a
        ELSE [a EXCEPT !.store = Insert(store, NewLink(network_id, device_id, <<>>))]

AssignNextNetworkIp(store, device_id, network_id, address, reserved, current_ips) ==
    AssignFromBlock(store, device_id, network_id, address, reserved, current_ips,
                    1, <<>>)

\* Device::assign_network_ips
AssignNetworkIps(store, device_id, network_id, address, ips) ==
    IF ~CanAssignIps(store, network_id, address, ips, device_id)
    THEN [res |-> "NetworkAddressError", link |-> <<>>, store |-> store,
          call |-> Call("assign_network_ips", store, device_id, network_id,
                        address, {}, <<>>, "NetworkAddressError", <<>>)]
    ELSE LET link == NewLink(network_id, device_id, ips)
         IN  [res |-> "Ok", link |-> <<link>>, store |-> Insert(store, link),
              call |-> Call("assign_network_ips", store, device_id, network_id,
                            address, {}, <<>>, "Ok", ips)]

\* WireguardNetwork::add_device_to_network: the allocator without current
\* addresses.
AddDeviceToNetwork(store, device_id, network_id, address, reserved) ==
    AssignNextNetworkIp(store, device_id, network_id, address, reserved, <<>>)

\* The allocator call a when the store rejects the insert of device.rs 884:
\* the `?` after insert returns the store's error as it is, and nothing is
\* written. A call that fails before the insert is not affected.
InsertRejected(a, store) ==
    IF a.res = "Ok"
    THEN [res |-> "DbError", link |-> <<>>, store |-> store,
          call |-> [a.call EXCEPT !.res = "DbError"]]
    ELSE a

\* The state of Device::add_to_all_networks before its loop: the links as
\* the transaction sees them, and empty network_info.
StartJoin(store) ==
    [res |-> "Ok", store |-> store, info |-> <<>>, calls |-> <<>>,
     network_info |-> <<>>, configs |-> <<>>]

\* DeviceNetworkInfo of the link an allocator call returned.
DeviceNetworkInfo(link) ==
    [network_id |-> link.wireguard_network_id,
     device_wireguard_ips |-> link.wireguard_ips,
     preshared_key |-> link.preshared_key,
     is_authorized |-> link.is_authorized]

\* DeviceConfig of the link an allocator call returned: the network and the
\* addresses its text is rendered from.
DeviceConfig(link) ==
    [network_id |-> link.wireguard_network_id, address |-> link.wireguard_ips]

\* An iteration that puts what it pushes before what was pushed earlier.
JoinAfterFirst(a, r, n) ==
    IF a.res = "Ok"
    THEN [r EXCEPT !.store = a.store, !.info = <<n>> \o @,
                   !.calls = Append(@, a.call),
                   !.network_info = <<DeviceNetworkInfo(a.link[1])>> \o @,
                   !.configs = <<DeviceConfig(a.link[1])>> \o @]
    ELSE [r EXCEPT !.calls = Append(@, a.call)]

\* The end of one iteration of the loop, after the call a of
\* add_device_to_network: `if let Ok(..)` pushes the network's info, and any
\* Err, whatever its kind, falls through to the next network.
JoinAfter(a, r, n) ==
    IF a.res = "Ok"
    THEN [r EXCEPT !.store = a.store, !.info = Append(@, n),
                   !.calls = Append(@, a.call),
                   !.network_info = Append(@, DeviceNetworkInfo(a.link[1])),
                   !.configs = Append(@, DeviceConfig(a.link[1]))]
    ELSE [r EXCEPT !.calls = Append(@, a.call)]

\* An iteration that allocates without looking for an existing link.
JoinNetworkAgain(r, dev, n, network, rejected) ==
    IF network.pubkey = dev.wireguard_pubkey
    THEN [r EXCEPT !.res = "PubkeyConflict"]
    ELSE JoinAfter(IF rejected
                   THEN InsertRejected(
                            AddDeviceToNetwork(r.store, dev.id, n, network.address, {}),
                            r.store)
                   ELSE AddDeviceToNetwork(r.store, dev.id, n, network.address, {}),
                   r, n)

\* An iteration that returns the allocator's error.
JoinNetworkOrFail(r, dev, n, network, rejected) ==
    IF network.pubkey = dev.wireguard_pubkey
    THEN [r EXCEPT !.res = "PubkeyConflict"]
    ELSE IF Find(r.store, dev.id, n) # {}
    THEN r
    ELSE IF AddDeviceToNetwork(r.store, dev.id, n, network.address, {}).res # "Ok"
    THEN [r EXCEPT !.res = "CannotCreate"]
    ELSE JoinAfter(AddDeviceToNetwork(r.store, dev.id, n, network.address, {}), r, n)

\* One iteration of the loop of Device::add_to_all_networks for network n:
\* a gateway key equal to the device's key returns PubkeyConflict, an
\* existing link is skipped, otherwise add_device_to_network is called.
\* rejected: the store rejects the insert of this call.
JoinNetwork(r, dev, n, network, rejected) ==
    IF network.pubkey = dev.wireguard_pubkey
    THEN [r EXCEPT !.res = "PubkeyConflict"]
    ELSE IF Find(r.store, dev.id, n) # {}
    THEN r
    ELSE JoinAfter(IF rejected
                   THEN InsertRejected(
                            AddDeviceToNetwork(r.store, dev.id, n, network.address, {}),
                            r.store)
                   ELSE AddDeviceToNetwork(r.store, dev.id, n, network.address, {}),
                   r, n)

\* Device::add_to_all_networks from network n on, in the order of
\* WireguardNetwork::all. rejects: the networks whose insert the store rejects.
RECURSIVE AddToAllNetworks(_, _, _, _, _)
AddToAllNetworks(r, dev, networks, n, rejects) ==
    IF n \notin DOMAIN networks \/ r.res # "Ok"
    THEN r
    ELSE AddToAllNetworks(JoinNetwork(r, dev, n, networks[n], n \in rejects),
                          dev, networks, n + 1, rejects)

\* What a transaction leaves in a table: its writes when it commits, the
\* table as it was when the handler returns early and the transaction is
\* dropped.
CommittedAlways(before, after, res) == after

Committed(before, after, res) == IF res = "Ok" THEN after ELSE before

\* Device::update_from and save: the row of the device with the new key.
UpdateFrom(devices, dev, wireguard_pubkey) ==
    (devices \ {dev}) \cup {[dev EXCEPT !.wireguard_pubkey = wireguard_pubkey]}

\* A check of the new key that finds no gateway key.
IsGatewayKeyNever(networks, wireguard_pubkey) == FALSE

\* The pubkey check of modify_device: some network has the key as its own.
IsGatewayKey(networks, wireguard_pubkey) ==
    \E n \in DOMAIN networks : networks[n].pubkey = wireguard_pubkey

\* Device::find_by_pubkey
FindByPubkey(devices, wireguard_pubkey) ==
    {dev \in devices : dev.wireguard_pubkey = wireguard_pubkey}

\* A link fits the network when it has one address per block, each inside its
\* block.
LinkFits(address, ips) ==
    /\ Len(ips) = Len(address)
    /\ \A i \in DOMAIN ips : Contains(address[i], ips[i])

\* WireguardNetwork::sync_allowed_devices over the User devices, from device
\* d on, in id order: an allowed device without a link is added, an allowed device whose link no
\* longer fits is reassigned with its addresses as current_ips, a link of a
\* device that is not allowed is removed. An allocation failure fails the sync.
RECURSIVE SyncFrom(_, _, _, _, _, _, _)

\* The sync after the allocator call a for device d.
SyncAfter(a, store, d, network_id, address, allowed, reserved, calls) ==
    IF a.res # "Ok"
    THEN [res |-> a.res, store |-> store, calls |-> Append(calls, a.call)]
    ELSE SyncFrom(a.store, d + 1, network_id, address, allowed, reserved,
                  Append(calls, a.call))

SyncFrom(store, d, network_id, address, allowed, reserved, calls) ==
    IF d > NumDevices
    THEN [res |-> "Ok", store |-> store, calls |-> calls]
    ELSE LET cur == Find(store, d, network_id)
         IN  IF d \notin UserDevice
             THEN SyncFrom(store, d + 1, network_id, address, allowed, reserved, calls)
             ELSE IF d \notin allowed
             THEN SyncFrom(Delete(store, d, network_id), d + 1, network_id,
                           address, allowed, reserved, calls)
             ELSE IF cur # {} /\ \A r \in cur : LinkFits(address, r.wireguard_ips)
             THEN SyncFrom(store, d + 1, network_id, address, allowed, reserved, calls)
             ELSE IF cur = {}
             THEN SyncAfter(AddDeviceToNetwork(store, d, network_id, address, reserved),
                            store, d, network_id, address, allowed, reserved, calls)
             ELSE SyncAfter(AssignNextNetworkIp(store, d, network_id, address, reserved,
                                (CHOOSE r \in cur : TRUE).wireguard_ips),
                            store, d, network_id, address, allowed, reserved, calls)

SyncAllowedDevices(store, network_id, address, allowed, reserved) ==
    SyncFrom(store, 1, network_id, address, allowed, reserved, <<>>)

\* ---------------------------------------------------------------- operations
\* What an operation leaves for its caller: its result and, in order, the
\* allocator calls it made. input holds the imported devices of an import.
Outcome(op, network_id, input, res, calls) ==
    [op |-> op, network |-> network_id, input |-> input, res |-> res,
     calls |-> calls]

\* WireguardNetwork::handle_imported_devices: each imported device is linked
\* with the addresses it declares by assign_network_ips; a device whose
\* addresses fail the validation is reported and not linked.
RECURSIVE HandleImportedDevices(_, _, _, _, _)

\* The import after the call a for the first imported device.
ImportAfter(a, network_id, address, imported, calls) ==
    HandleImportedDevices(a.store, network_id, address, Tail(imported),
                          Append(calls, a.call))

HandleImportedDevices(store, network_id, address, imported, calls) ==
    IF imported = <<>>
    THEN [res |-> "Ok", store |-> store, calls |-> calls]
    ELSE ImportAfter(AssignNetworkIps(store, Head(imported).device, network_id,
                                      address, Head(imported).wireguard_ips),
                     network_id, address, imported, calls)

\* reserved_ips of import_network: every address an imported device declares.
ImportReservedIps(imported) ==
    UNION {SeqToSet(imported[k].wireguard_ips) : k \in DOMAIN imported}

Idle == Outcome("idle", 0, <<>>, "Ok", <<>>)

\* Transactions of concurrent allocator calls.
Tx == 1..NumTx
NoTx == [pc |-> "idle", link |-> <<>>]
NoScenario == [step |-> "none", a |-> 0, b |-> 0, c |-> 0, removed |-> 0]
NoRequest == [pc |-> "idle", wireguard_pubkey |-> 0]

Init ==
    /\ wireguard_network = <<>>
    /\ wireguard_network_device = {}
    /\ last = Idle
    /\ tx = [t \in Tx |-> NoTx]
    /\ scenario = NoScenario
    /\ device = {}
    /\ request = [t \in Tx |-> NoRequest]
    /\ events = <<>>
    /\ gateway_state = {}
    /\ lock = Unlocked
    /\ handler = NoHandler

\* The id network.save gives a new network.
NextNetworkId == Cardinality(DOMAIN wireguard_network) + 1

Networks == DOMAIN wireguard_network

\* reserved_ips of a call: none, or one address.
ReservedSets == {{}} \cup {{a} : a \in Addr}

\* The addresses a caller has at hand as current_ips: none, or those of the
\* device's link in the network.
CurrentChoices(device_id, network_id) ==
    {<<>>} \cup
    {r.wireguard_ips : r \in Find(wireguard_network_device, device_id, network_id)}

\* The address lists a caller of assign_network_ips passes.
ExactChoices == (Addr \X Addr) \cup {<<a>> : a \in Addr}

\* The imported devices of a configuration: Network devices not yet linked
\* anywhere, each declaring one or two addresses.
ImportedChoices ==
    {<<>>} \cup
    {<<[device |-> d, wireguard_ips |-> ips]>> :
        d \in {x \in NetworkDevice :
                  \A r \in wireguard_network_device : r.device_id # x},
        ips \in ExactChoices}

\* Operations run one at a time: each runs only when no outcome is waiting to
\* be taken.
\* One call of Device::assign_next_network_ip, committed when it succeeds.
AssignNext ==
    /\ last = Idle
    /\ \E d \in Device, n \in Networks, reserved \in ReservedSets :
       \E current \in CurrentChoices(d, n) :
       \E a \in {AssignNextNetworkIp(wireguard_network_device, d, n,
                                       wireguard_network[n].address, reserved, current)} :
           /\ wireguard_network_device' = a.store
           /\ last' = Outcome("assign_next_network_ip", n, <<>>, a.res, <<a.call>>)
    /\ UNCHANGED <<wireguard_network, tx, scenario, device, request, events>>
    /\ UNCHANGED gatewayVars

\* Device::add_to_network of a Network device: one call of
\* Device::assign_network_ips.
AssignExact ==
    /\ last = Idle
    /\ \E d \in NetworkDevice, n \in Networks :
       \E ips \in {x \in ExactChoices : Len(x) = Len(wireguard_network[n].address)} :
       \E a \in {AssignNetworkIps(wireguard_network_device, d, n,
                                    wireguard_network[n].address, ips)} :
           /\ wireguard_network_device' = a.store
           /\ last' = Outcome("assign_network_ips", n, <<>>, a.res, <<a.call>>)
    /\ UNCHANGED <<wireguard_network, tx, scenario, device, request, events>>
    /\ UNCHANGED gatewayVars

\* WireguardNetworkDevice::delete of an existing link.
DeleteLink ==
    /\ last = Idle
    /\ \E d \in Device, n \in Networks :
           /\ Find(wireguard_network_device, d, n) # {}
           /\ wireguard_network_device' = Delete(wireguard_network_device, d, n)
           /\ last' = Outcome("delete", n, <<[device |-> d]>>, "Ok", <<>>)
    /\ UNCHANGED <<wireguard_network, tx, scenario, device, request, events>>
    /\ UNCHANGED gatewayVars

\* modify_network: the new address list is saved and the membership synced in
\* one transaction; a failed sync rolls both back.
ModifyNetwork ==
    /\ last = Idle
    /\ \E n \in Networks, address \in Layouts, allowed \in SUBSET UserDevice :
       \E s \in {SyncAllowedDevices(wireguard_network_device, n, address, allowed, {})} :
           /\ last' = Outcome("modify_network", n, <<>>, s.res, s.calls)
           /\ IF s.res = "Ok"
              THEN /\ wireguard_network' =
                          [wireguard_network EXCEPT ![n].address = address]
                   /\ wireguard_network_device' = s.store
              ELSE UNCHANGED <<wireguard_network, wireguard_network_device>>
    /\ UNCHANGED <<tx, scenario, device, request, events>>
    /\ UNCHANGED gatewayVars

\* import_network: the network is saved, the imported devices are linked,
\* and the membership of the remaining devices is synced with the imported
\* addresses reserved; all in one transaction.
ImportNetwork ==
    /\ last = Idle
    /\ NextNetworkId \in Net
    /\ \E address \in Layouts, imported \in ImportedChoices, allowed \in SUBSET UserDevice :
       \E n \in {NextNetworkId} :
       \E h \in {HandleImportedDevices(wireguard_network_device, n, address,
                                        imported, <<>>)} :
       \E s \in {SyncAllowedDevices(h.store, n, address, allowed,
                                     ImportReservedIps(imported))} :
          /\ last' = Outcome("import_network", n, imported, s.res, h.calls \o s.calls)
          /\ IF s.res = "Ok"
             THEN /\ wireguard_network' =
                         (n :> [address |-> address]) @@ wireguard_network
                  /\ wireguard_network_device' = s.store
             ELSE UNCHANGED <<wireguard_network, wireguard_network_device>>
    /\ UNCHANGED <<tx, scenario, device, request, events>>
    /\ UNCHANGED gatewayVars

\* The caller takes the outcome.
Return ==
    /\ last # Idle
    /\ last' = Idle
    /\ UNCHANGED <<wireguard_network, wireguard_network_device, tx, scenario, device, request, events>>
    /\ UNCHANGED gatewayVars

Next ==
    \/ AssignNext
    \/ ImportNetwork
    \/ AssignExact
    \/ DeleteLink
    \/ ModifyNetwork
    \/ Return

Spec == Init /\ [][Next]_vars

\* ------------------------------------------------- concurrent allocator calls
\* Calls of assign_next_network_ip for new devices of an existing network, each
\* in a transaction of its own at the store's default isolation (read
\* committed): the scan reads the committed links, the insert is private to
\* its transaction until the commit.
InitConcurrent ==
    /\ wireguard_network \in {<<[address |-> l]>> : l \in Layouts}
    /\ wireguard_network_device = {}
    /\ last = Idle
    /\ tx = [t \in Tx |-> NoTx]
    /\ scenario = NoScenario
    /\ device = {}
    /\ request = [t \in Tx |-> NoRequest]
    /\ events = <<>>
    /\ gateway_state = {}
    /\ lock = Unlocked
    /\ handler = NoHandler

\* The loop of assign_next_network_ip: its queries see the committed links.
TxScan ==
    /\ \E t \in Tx, d \in Device, n \in Networks :
       \E a \in {AssignNextNetworkIp(wireguard_network_device, d, n,
                                       wireguard_network[n].address, {}, <<>>)} :
           /\ tx[t].pc = "idle"
           /\ a.res = "Ok"
           /\ tx' = [tx EXCEPT ![t] = [pc |-> "scanned", link |-> a.link]]
    /\ UNCHANGED <<wireguard_network, wireguard_network_device, last, scenario, device, request, events>>
    /\ UNCHANGED gatewayVars

\* The INSERT at the end of assign_next_network_ip. Its conflict target is
\* the (device, network) key: it waits for an open transaction that has
\* written that key, and for no other.
TxInsert ==
    /\ \E t \in Tx :
           /\ tx[t].pc = "scanned"
           /\ \A u \in Tx \ {t} :
                  tx[u].pc = "inserted" =>
                      \/ tx[u].link[1].device_id # tx[t].link[1].device_id
                      \/ tx[u].link[1].wireguard_network_id # tx[t].link[1].wireguard_network_id
           /\ tx' = [tx EXCEPT ![t].pc = "inserted"]
    /\ UNCHANGED <<wireguard_network, wireguard_network_device, last, scenario, device, request, events>>
    /\ UNCHANGED gatewayVars

\* transaction.commit() of the caller: the inserted row becomes visible.
TxCommit ==
    /\ \E t \in Tx :
           /\ tx[t].pc = "inserted"
           /\ wireguard_network_device' = Insert(wireguard_network_device, tx[t].link[1])
           /\ tx' = [tx EXCEPT ![t] = NoTx]
    /\ UNCHANGED <<wireguard_network, last, scenario, device, request, events>>
    /\ UNCHANGED gatewayVars

\* The caller drops its transaction without a commit.
TxRollback ==
    /\ \E t \in Tx :
           /\ tx[t].pc \in {"scanned", "inserted"}
           /\ tx' = [tx EXCEPT ![t] = NoTx]
    /\ UNCHANGED <<wireguard_network, wireguard_network_device, last, scenario, device, request, events>>
    /\ UNCHANGED gatewayVars

NextConcurrent ==
    \/ TxScan
    \/ TxInsert
    \/ TxCommit
    \/ TxRollback

SpecConcurrent == InitConcurrent /\ [][NextConcurrent]_vars

\* ------------------------------------------------------- the /30 scenario
\* Networks whose blocks are all /30: two host addresses per block.
ScenarioLayouts == {l \in Layouts : \A i \in DOMAIN l : l[i].size = 4}

\* Three distinct devices a, b, c and an empty network of /30 blocks.
InitScenario ==
    /\ wireguard_network \in {<<[address |-> l]>> : l \in ScenarioLayouts}
    /\ wireguard_network_device = {}
    /\ last = Idle
    /\ tx = [t \in Tx |-> NoTx]
    /\ scenario \in {[step |-> "start", a |-> x, b |-> y, c |-> z, removed |-> 0] :
                         x \in Device, y \in Device, z \in Device}
    /\ scenario.a # scenario.b /\ scenario.a # scenario.c /\ scenario.b # scenario.c
    /\ device = {}
    /\ request = [t \in Tx |-> NoRequest]
    /\ events = <<>>
    /\ gateway_state = {}
    /\ lock = Unlocked
    /\ handler = NoHandler

\* assign_next_network_ip for device d of network 1 as the scenario's step
\* from one position to the next.
ScenarioAssign(from, to, d) ==
    /\ scenario.step = from
    /\ \E a \in {AssignNextNetworkIp(wireguard_network_device, d, 1,
                                       wireguard_network[1].address, {}, <<>>)} :
           /\ wireguard_network_device' = a.store
           /\ last' = Outcome("assign_next_network_ip", 1, <<>>, a.res, <<a.call>>)
    /\ scenario' = [scenario EXCEPT !.step = to]
    /\ UNCHANGED <<wireguard_network, tx, device, request, events>>
    /\ UNCHANGED gatewayVars

ScenarioAssignA == ScenarioAssign("start", "a_assigned", scenario.a)
ScenarioAssignB == ScenarioAssign("a_assigned", "b_assigned", scenario.b)
ScenarioAssignC == ScenarioAssign("b_assigned", "c_refused", scenario.c)

\* The link of one of the two holders is deleted.
ScenarioRemove ==
    /\ scenario.step = "c_refused"
    /\ \E d \in {scenario.a, scenario.b} :
           /\ wireguard_network_device' = Delete(wireguard_network_device, d, 1)
           /\ last' = Outcome("delete", 1, <<[device |-> d]>>, "Ok", <<>>)
           /\ scenario' = [scenario EXCEPT !.step = "removed", !.removed = d]
    /\ UNCHANGED <<wireguard_network, tx, device, request, events>>
    /\ UNCHANGED gatewayVars

ScenarioAssignCAgain == ScenarioAssign("removed", "c_assigned", scenario.c)

NextScenario ==
    \/ ScenarioAssignA
    \/ ScenarioAssignB
    \/ ScenarioAssignC
    \/ ScenarioRemove
    \/ ScenarioAssignCAgain

SpecScenario == InitScenario /\ [][NextScenario]_vars

\* ------------------------------------------------- devices and their keys
\* add_device, modify_device and add_to_all_networks over networks that do
\* not change: one or two networks, each of one block, network n with the
\* gateway key n. Firewall configuration is off (try_get_firewall_config
\* gives None), so the handlers send the device events only.
Key == 1..NumKeys

JoinLayouts == {<<Block(0, 4)>>, <<Block(0, 8)>>}

NetworkChoices ==
    {<<>>}
    \cup {<<[address |-> a, pubkey |-> 1]>> : a \in JoinLayouts}
    \cup {<<[address |-> a, pubkey |-> 1], [address |-> b, pubkey |-> 2]>> :
             a \in JoinLayouts, b \in JoinLayouts}

InitDevices ==
    /\ wireguard_network \in NetworkChoices
    /\ wireguard_network_device = {}
    /\ last = Idle
    /\ tx = [t \in Tx |-> NoTx]
    /\ scenario = NoScenario
    /\ device = {}
    /\ request = [t \in Tx |-> NoRequest]
    /\ events = <<>>
    /\ gateway_state = {}
    /\ lock = Unlocked
    /\ handler = NoHandler

\* The id Device::save gives a new device.
NextDeviceId == Cardinality(device) + 1

Checked == {t \in Tx : request[t].pc = "checked"}

\* The outcome of a handler that ran add_to_all_networks: with the
\* network_info it returned.
JoinOutcome(op, dev, r) ==
    [op |-> op, network |-> 0, input |-> <<dev>>, res |-> r.res, calls |-> r.calls,
     info |-> r.info, network_info |-> r.network_info, configs |-> r.configs]

\* DeviceInfo of a gateway event.
DeviceEvent(event, dev, network_info) ==
    [event |-> event, device |-> dev, network_info |-> network_info]

\* network_info of modify_device: the networks in which the device has a link.
LinkedNetworks(store, dev, networks) ==
    SelectSeq([n \in DOMAIN networks |-> n], LAMBDA n : Find(store, dev.id, n) # {})

\* add_device up to the transaction: no network answers 400, a stored device
\* with the key answers PubkeyExists; otherwise the request goes on. The
\* reads are on the pool, outside the transaction that saves.
AddDeviceCheck ==
    /\ last = Idle
    /\ Cardinality(device) + Cardinality(Checked) < NumDevices
    /\ \E t \in Tx, k \in Key :
           /\ request[t].pc = "idle"
           /\ IF wireguard_network = <<>>
              THEN /\ last' = Outcome("add_device", 0, <<[wireguard_pubkey |-> k]>>,
                                      "BadRequest", <<>>)
                   /\ UNCHANGED request
              ELSE IF FindByPubkey(device, k) # {}
              THEN /\ last' = Outcome("add_device", 0, <<[wireguard_pubkey |-> k]>>,
                                      "PubkeyExists", <<>>)
                   /\ UNCHANGED request
              ELSE /\ request' = [request EXCEPT
                                     ![t] = [pc |-> "checked", wireguard_pubkey |-> k]]
                   /\ UNCHANGED last
    /\ UNCHANGED <<wireguard_network, wireguard_network_device, tx, scenario, device, events>>
    /\ UNCHANGED gatewayVars

\* add_device from pool.begin on: the device is saved and joins all networks
\* in one transaction; the events are sent and the transaction commits. An
\* error of add_to_all_networks returns before both, and the dropped
\* transaction rolls back. The store rejects no insert here.
AddDeviceSave ==
    /\ last = Idle
    /\ \E t \in Checked, rejects \in {{}} :
       \E dev \in {[id |-> NextDeviceId, wireguard_pubkey |-> request[t].wireguard_pubkey]} :
       \E r \in {AddToAllNetworks(StartJoin(wireguard_network_device), dev,
                                   wireguard_network, 1, rejects)} :
           /\ device' = Committed(device, device \cup {dev}, r.res)
           /\ wireguard_network_device' =
                  Committed(wireguard_network_device, r.store, r.res)
           /\ events' = IF r.res = "Ok"
                        THEN <<DeviceEvent("DeviceCreated", dev, r.network_info)>>
                        ELSE <<>>
           /\ last' = JoinOutcome("add_device", dev, r)
           /\ request' = [request EXCEPT ![t] = NoRequest]
    /\ UNCHANGED <<wireguard_network, tx, scenario>>
    /\ UNCHANGED gatewayVars

\* modify_device: no network, or a gateway key equal to the new key, answers
\* 400 before anything is written or sent; otherwise the device is saved with
\* the new key and DeviceModified is sent. keys: the new keys a request may
\* bring; a request that changes something else brings the device's own.
ModifyDeviceWith(keys) ==
    /\ last = Idle
    /\ \E dev \in device :
       \E k \in keys \cup {dev.wireguard_pubkey} :
           IF \/ wireguard_network = <<>>
              \/ IsGatewayKey(wireguard_network, k)
           THEN /\ last' = Outcome("modify_device", 0,
                                   <<dev, [wireguard_pubkey |-> k]>>, "BadRequest", <<>>)
                /\ UNCHANGED <<device, events>>
           ELSE /\ device' = UpdateFrom(device, dev, k)
                /\ events' = <<DeviceEvent("DeviceModified",
                                            [dev EXCEPT !.wireguard_pubkey = k],
                                            LinkedNetworks(wireguard_network_device, dev,
                                                           wireguard_network))>>
                /\ last' = Outcome("modify_device", 0,
                                   <<dev, [wireguard_pubkey |-> k]>>, "Ok", <<>>)
    /\ UNCHANGED <<wireguard_network, wireguard_network_device, tx, scenario, request>>
    /\ UNCHANGED gatewayVars

\* modify_device with any new key.
ModifyDevice == ModifyDeviceWith(Key)

\* The keys of the gateways and of the stored devices.
UsedKeys ==
    {wireguard_network[n].pubkey : n \in DOMAIN wireguard_network}
    \cup {dev.wireguard_pubkey : dev \in device}

\* The keys a request brings: a key is an opaque value of which only equality
\* is read, so of the keys not in use the lowest stands for all.
RequestKeys == {k \in Key : \A j \in Key : j < k => j \in UsedKeys}

\* add_device as one step, from the checks to the commit, with a store that
\* may reject the insert of a link.
AddDevice ==
    /\ last = Idle
    /\ NextDeviceId <= NumDevices
    /\ \E k \in RequestKeys, rejects \in SUBSET DOMAIN wireguard_network :
       \E dev \in {[id |-> NextDeviceId, wireguard_pubkey |-> k]} :
       \E r \in {AddToAllNetworks(StartJoin(wireguard_network_device), dev,
                                   wireguard_network, 1, rejects)} :
           IF wireguard_network = <<>>
           THEN /\ last' = Outcome("add_device", 0, <<[wireguard_pubkey |-> k]>>,
                                   "BadRequest", <<>>)
                /\ UNCHANGED <<device, wireguard_network_device, events>>
           ELSE IF FindByPubkey(device, k) # {}
           THEN /\ last' = Outcome("add_device", 0, <<[wireguard_pubkey |-> k]>>,
                                   "PubkeyExists", <<>>)
                /\ UNCHANGED <<device, wireguard_network_device, events>>
           ELSE /\ device' = Committed(device, device \cup {dev}, r.res)
                /\ wireguard_network_device' =
                       Committed(wireguard_network_device, r.store, r.res)
                /\ events' = IF r.res = "Ok"
                             THEN <<DeviceEvent("DeviceCreated", dev, r.network_info)>>
                             ELSE <<>>
                /\ last' = JoinOutcome("add_device", dev, r)
    /\ UNCHANGED <<wireguard_network, tx, scenario, request>>
    /\ UNCHANGED gatewayVars

\* Device::add_to_all_networks for a stored device, in a transaction of its
\* own that commits when the call returns Ok.
JoinAll ==
    /\ last = Idle
    /\ \E dev \in device, rejects \in SUBSET DOMAIN wireguard_network :
       \E r \in {AddToAllNetworks(StartJoin(wireguard_network_device), dev,
                                   wireguard_network, 1, rejects)} :
           /\ wireguard_network_device' =
                  Committed(wireguard_network_device, r.store, r.res)
           /\ last' = JoinOutcome("add_to_all_networks", dev, r)
    /\ UNCHANGED <<wireguard_network, tx, scenario, device, request, events>>
    /\ UNCHANGED gatewayVars

\* The caller takes the outcome and the gateways take the events.
ReturnDevices ==
    /\ last # Idle
    /\ last' = Idle
    /\ events' = <<>>
    /\ UNCHANGED <<wireguard_network, wireguard_network_device, tx, scenario, device, request>>
    /\ UNCHANGED gatewayVars

\* The handlers that write device keys, add_device in its two parts so that
\* requests interleave.
NextDevices ==
    \/ AddDeviceCheck
    \/ AddDeviceSave
    \/ ModifyDevice
    \/ ReturnDevices

SpecDevices == InitDevices /\ [][NextDevices]_vars

\* Joining networks, one operation at a time.
NextJoin ==
    \/ AddDevice
    \/ JoinAll
    \/ ReturnDevices

SpecJoin == InitDevices /\ [][NextJoin]_vars

\* ------------------------------------------------------ the gateway registry
\* GatewayMap behind Arc<Mutex<..>>: a set of handles, one per network and
\* gateway id. Two networks exist in the store; gateways have the ids 1 and 2.
GatewayNetworks == {1, 2}
Uid == {1, 2}

\* The gateway id as the text of the request path: the text of a Uuid, or 0
\* for a text that is none.
GatewayIdText == Uid \cup {0}

\* Uuid::from_str: Ok(uid) as <<uid>>, Err as <<>>.
UuidFromStr(text) == IF text \in Uid THEN <<text>> ELSE <<>>

\* GatewayMap::get_network_gateway_status
GetNetworkGatewayStatus(state, network_id) ==
    {h \in state : h.network_id = network_id}

\* GatewayMap::connected
Connected(state, network_id) ==
    \E h \in GetNetworkGatewayStatus(state, network_id) : h.connected

\* GatewayMap::remove_gateway: NotFound when the network has no handle with
\* the id.
RemoveGateway(state, network_id, uid) ==
    IF \A h \in GetNetworkGatewayStatus(state, network_id) : h.uid # uid
    THEN [res |-> "NotFound", state |-> state]
    ELSE [res |-> "Ok",
          state |-> {h \in state : ~(h.network_id = network_id /\ h.uid = uid)}]

\* A mutex that lets everyone in.
LockFreeAlways(l) == TRUE

\* Mutex::lock returns once no one holds the mutex.
LockFree(l) == ~l.held

\* A guard that is never dropped.
ReleaseKept(l) == l

\* The drop of the MutexGuard at the end of its scope.
Release(l) == [l EXCEPT !.held = FALSE]

InitGateway ==
    /\ wireguard_network = [n \in GatewayNetworks |-> [address |-> <<Block(0, 4)>>]]
    /\ wireguard_network_device = {}
    /\ last = Idle
    /\ tx = [t \in Tx |-> NoTx]
    /\ scenario = NoScenario
    /\ device = {}
    /\ request = [t \in Tx |-> NoRequest]
    /\ events = <<>>
    /\ gateway_state = {}
    /\ lock = Unlocked
    /\ handler = NoHandler

storeVars == <<wireguard_network, wireguard_network_device, tx, scenario, device,
               request, events>>

\* Heartbeat ingestion: a gateway of a network is registered or its handle
\* is marked connected or disconnected, under the lock.
Heartbeat ==
    /\ last = Idle
    /\ LockFree(lock)
    /\ ~lock.poisoned
    /\ \E n \in GatewayNetworks, uid \in Uid, c \in BOOLEAN :
           gateway_state' =
               RemoveGateway(gateway_state, n, uid).state
               \cup {[network_id |-> n, uid |-> uid, connected |-> c]}
    /\ UNCHANGED <<storeVars, last, lock, handler>>

\* A task that holds the lock panics: the guard is dropped while unwinding
\* and the mutex is poisoned.
PanicHoldingLock ==
    /\ last = Idle
    /\ LockFree(lock)
    /\ ~lock.poisoned
    /\ lock' = [lock EXCEPT !.poisoned = TRUE]
    /\ UNCHANGED <<storeVars, last, gateway_state, handler>>

\* The outcome of a handler that takes the lock and does not suspend:
\* lock().expect(..) panics on a poisoned mutex.
Locked(res) == IF lock.poisoned THEN "Panic" ELSE res

\* remove_gateway: the lock is taken, then the id is parsed (500 when it is
\* no Uuid), then the handle is removed.
RemoveGatewayRequest ==
    /\ last = Idle
    /\ LockFree(lock)
    /\ \E n \in GatewayNetworks, text \in GatewayIdText :
           IF lock.poisoned \/ UuidFromStr(text) = <<>>
           THEN /\ last' = Outcome("remove_gateway", n,
                                   <<[gateway_id |-> text, before |-> gateway_state]>>,
                                   Locked("InternalServerError"), <<>>)
                /\ UNCHANGED gateway_state
           ELSE \E r \in {RemoveGateway(gateway_state, n, UuidFromStr(text)[1])} :
                /\ last' = Outcome("remove_gateway", n,
                                   <<[gateway_id |-> text, before |-> gateway_state]>>,
                                   r.res, <<>>)
                /\ gateway_state' = r.state
    /\ UNCHANGED <<storeVars, lock, handler>>

\* gateway_status
GatewayStatus ==
    /\ last = Idle
    /\ LockFree(lock)
    /\ \E n \in GatewayNetworks :
           last' = Outcome("gateway_status", n,
                           <<[gateways |-> IF lock.poisoned THEN {}
                                           ELSE GetNetworkGatewayStatus(gateway_state, n)]>>,
                           Locked("Ok"), <<>>)
    /\ UNCHANGED <<storeVars, gateway_state, lock, handler>>

\* all_gateways_status: the map is cloned under the lock and flattened.
AllGatewaysStatus ==
    /\ last = Idle
    /\ LockFree(lock)
    /\ last' = Outcome("all_gateways_status", 0,
                       <<[gateways |-> IF lock.poisoned THEN {} ELSE gateway_state]>>,
                       Locked("Ok"), <<>>)
    /\ UNCHANGED <<storeVars, gateway_state, lock, handler>>

\* list_networks up to the loop: WireguardNetwork::all.
StartListNetworks ==
    /\ last = Idle
    /\ handler.pc = "idle"
    /\ handler' = [NoHandler EXCEPT !.op = "list_networks", !.pc = "groups",
                                    !.network_id = 1]
    /\ UNCHANGED <<storeVars, last, gateway_state, lock>>

\* network_details up to the match: find_by_id; None answers 404.
StartNetworkDetails ==
    /\ last = Idle
    /\ handler.pc = "idle"
    /\ \E n \in GatewayNetworks \cup {Cardinality(GatewayNetworks) + 1} :
           handler' = IF n \in DOMAIN wireguard_network
                      THEN [NoHandler EXCEPT !.op = "network_details", !.pc = "groups",
                                             !.network_id = n]
                      ELSE [NoHandler EXCEPT !.op = "network_details", !.pc = "respond",
                                             !.network_id = n, !.status = 404]
    /\ UNCHANGED <<storeVars, last, gateway_state, lock>>

\* network.fetch_allowed_groups(&appstate.pool).await
FetchAllowedGroups ==
    /\ last = Idle
    /\ handler.pc = "groups"
    /\ handler' = [handler EXCEPT !.pc = "lock"]
    /\ UNCHANGED <<storeVars, last, gateway_state, lock>>

\* gateway_state.lock().expect(..)
Acquire ==
    /\ last = Idle
    /\ handler.pc = "lock"
    /\ LockFree(lock)
    /\ IF lock.poisoned
       THEN /\ handler' = [handler EXCEPT !.pc = "panicked"]
            /\ UNCHANGED lock
       ELSE /\ handler' = [handler EXCEPT !.pc = "connected"]
            /\ lock' = [lock EXCEPT !.held = TRUE]
    /\ UNCHANGED <<storeVars, last, gateway_state>>

\* connected: gateway_state.connected(network_id)
ReadConnected ==
    /\ last = Idle
    /\ handler.pc = "connected"
    /\ handler' = [handler EXCEPT !.pc = "gateways",
                                  !.connected = Connected(gateway_state, handler.network_id)]
    /\ UNCHANGED <<storeVars, last, gateway_state, lock>>

\* gateways: gateway_state.get_network_gateway_status(network_id)
ReadGateways ==
    /\ last = Idle
    /\ handler.pc = "gateways"
    /\ handler' = [handler EXCEPT !.pc = "pushed",
                                  !.gateways = GetNetworkGatewayStatus(gateway_state,
                                                                       handler.network_id)]
    /\ UNCHANGED <<storeVars, last, gateway_state, lock>>

\* The end of the guard's scope, with the WireguardNetworkInfo built:
\* list_networks goes on to the next network or to its response,
\* network_details to its response. Steps of different requests are taken one
\* at a time, an outcome being taken before the next step.
DropGuard ==
    /\ last = Idle
    /\ handler.pc = "pushed"
    /\ lock' = Release(lock)
    /\ handler' = IF handler.op = "list_networks"
                     /\ handler.network_id + 1 \in DOMAIN wireguard_network
                  THEN [NoHandler EXCEPT !.op = handler.op, !.pc = "groups",
                                         !.network_id = handler.network_id + 1]
                  ELSE [NoHandler EXCEPT !.op = handler.op, !.pc = "respond",
                                         !.network_id = handler.network_id,
                                         !.status = 200]
    /\ UNCHANGED <<storeVars, last, gateway_state>>

\* The response is sent, or the panic ends the request without one.
Respond ==
    /\ last = Idle
    /\ handler.pc \in {"respond", "panicked"}
    /\ handler' = NoHandler
    /\ UNCHANGED <<storeVars, last, gateway_state, lock>>

\* The caller of a handler that did not suspend takes its outcome.
ReturnGateway ==
    /\ last # Idle
    /\ last' = Idle
    /\ UNCHANGED <<storeVars, gateway_state, lock, handler>>

NextGateway ==
    \/ Heartbeat
    \/ PanicHoldingLock
    \/ RemoveGatewayRequest
    \/ GatewayStatus
    \/ AllGatewaysStatus
    \/ StartListNetworks
    \/ StartNetworkDetails
    \/ FetchAllowedGroups
    \/ Acquire
    \/ ReadConnected
    \/ ReadGateways
    \/ DropGuard
    \/ Respond
    \/ ReturnGateway

SpecGateway == InitGateway /\ [][NextGateway]_vars

\* ------------------------------------------- what is shown of a device
\* UserDevice::from_device and Device::create_config: their inputs are drawn
\* from small sets and the result is left in last.
Time == 0..MaxTime

\* WIREGUARD_MAX_HANDSHAKE, in the unit of Time.
WIREGUARD_MAX_HANDSHAKE == 3

\* The rows of wireguard_peer_stats of one device and network: when they
\* were collected and the latest handshake they report, which may be NULL.
StatsRows ==
    {[collected_at |-> c, latest_handshake |-> h] :
        c \in {1, 2}, h \in {<<>>} \cup {<<x>> : x \in Time}}

\* At most one row per collection time.
StatsChoices ==
    {S \in SUBSET StatsRows : \A r1, r2 \in S : r1.collected_at = r2.collected_at => r1 = r2}

\* SELECT DISTINCT ON (network) .. ORDER BY network, collected_at DESC: the
\* row collected last, None when the LEFT JOIN finds no row.
LatestStats(stats) ==
    IF stats = {}
    THEN <<>>
    ELSE <<CHOOSE r \in stats : \A q \in stats : q.collected_at <= r.collected_at>>

\* An activity test that counts the age equal to the threshold as active.
IsActiveInclusive(now, stats) ==
    /\ LatestStats(stats) # <<>>
    /\ LatestStats(stats)[1].latest_handshake # <<>>
    /\ now - LatestStats(stats)[1].latest_handshake[1] <= WIREGUARD_MAX_HANDSHAKE

\* COALESCE((NOW() - stats.latest_handshake) < $1, FALSE): NULL, from a
\* missing row or a NULL handshake, gives FALSE.
IsActive(now, stats) ==
    /\ LatestStats(stats) # <<>>
    /\ LatestStats(stats)[1].latest_handshake # <<>>
    /\ now - LatestStats(stats)[1].latest_handshake[1] < WIREGUARD_MAX_HANDSHAKE

\* One line of a rendered configuration: its key and its value; a section
\* header or an empty line has no value.
Line(key, value) == [key |-> key, value |-> value]

\* format!("DNS = {dns}") or String::new(), followed by the "\n" of the
\* template: one line, empty when dns is None or empty.
DnsLines(dns) ==
    IF dns = <<>> \/ dns[1] = ""
    THEN <<Line("", <<>>)>>
    ELSE <<Line("DNS", dns)>>

\* format!("AllowedIPs = {}\n", ..) or String::new(): one line or none.
AllowedIpsLines(allowed_ips) ==
    IF allowed_ips = <<>>
    THEN <<>>
    ELSE <<Line("AllowedIPs", allowed_ips)>>

\* Device::create_config: the text as its sequence of lines.
CreateConfig(network, link) ==
    <<Line("[Interface]", <<>>),
      Line("PrivateKey", <<"YOUR_PRIVATE_KEY">>),
      Line("Address", link.wireguard_ips)>>
    \o DnsLines(network.dns)
    \o <<Line("", <<>>),
         Line("[Peer]", <<>>),
         Line("PublicKey", <<network.pubkey>>)>>
    \o AllowedIpsLines(network.allowed_ips)
    \o <<Line("Endpoint", <<network.endpoint, network.port>>),
         Line("PersistentKeepalive", <<300>>)>>

\* The networks a configuration is rendered for.
ConfigNetworks ==
    {[pubkey |-> 1, endpoint |-> "vpn.example.com", port |-> port, dns |-> dns,
      allowed_ips |-> allowed, keepalive_interval |-> keepalive] :
        port \in {50051, 51820},
        dns \in {<<>>, <<"">>, <<"10.0.0.1">>},
        allowed \in {<<>>, <<Block(0, 4)>>, <<Block(0, 4), Block(4, 4)>>},
        keepalive \in {25, 300}}

\* The value a function returned for its arguments.
Returned(op, args, value) == Outcome(op, 0, <<args, value>>, "Ok", <<>>)

\* UserDevice::from_device for one network of the device.
FromDevice ==
    /\ last = Idle
    /\ \E now \in Time, stats \in StatsChoices :
           last' = Returned("from_device", [now |-> now, stats |-> stats],
                            [latest_handshake |->
                                 IF LatestStats(stats) = <<>> THEN <<>>
                                 ELSE LatestStats(stats)[1].latest_handshake,
                             is_active |-> IsActive(now, stats)])
    /\ UNCHANGED <<storeVars, gatewayVars>>

\* Device::create_config for a network and a link of the device.
RenderConfig ==
    /\ last = Idle
    /\ \E network \in ConfigNetworks, ips \in {<<1>>, <<2>>, <<1, 5>>} :
           last' = Returned("create_config", network,
                            CreateConfig(network, NewLink(1, 1, ips)))
    /\ UNCHANGED <<storeVars, gatewayVars>>

ReturnView ==
    /\ last # Idle
    /\ last' = Idle
    /\ UNCHANGED <<storeVars, gatewayVars>>

NextViews ==
    \/ FromDevice
    \/ RenderConfig
    \/ ReturnView

SpecViews == Init /\ [][NextViews]_vars

\* ------------------------------------------------------- the gateway events
\* The handlers that send gateway events, each as one step from its request
\* to its response, with the firewall evaluator on for some networks. The
\* store starts with one network and, possibly, a Network device that has no
\* link yet and may still wait to be configured.

\* AppState::send_wireguard_event: the event goes to the dispatcher after the
\* events sent before it.
SendWireguardEvent(sent, event) == Append(sent, event)

\* A dispatcher that takes a batch before the events sent before it.
SendMultipleFirst(sent, batch) == batch \o sent

\* AppState::send_multiple_wireguard_events: the batch goes to the dispatcher
\* in its order, after the events sent before it.
SendMultipleWireguardEvents(sent, batch) == sent \o batch

\* GatewayEvent::NetworkCreated, NetworkDeleted
NetworkEvent(event, network_id) == [event |-> event, network |-> network_id]

\* GatewayEvent::NetworkModified
NetworkModified(network_id, peers, maybe_firewall_config) ==
    [event |-> "NetworkModified", network |-> network_id, peers |-> peers,
     firewall_config |-> maybe_firewall_config]

\* GatewayEvent::FirewallConfigChanged
FirewallConfigChanged(location_id, firewall_config) ==
    [event |-> "FirewallConfigChanged", network |-> location_id,
     firewall_config |-> firewall_config]

\* The links a transaction reads before its membership change.
ViewBefore(before, after) == before

\* The links a transaction reads after its own writes.
View(before, after) == after

\* WireguardNetwork::try_get_firewall_config: None when ACL is off for the
\* location, otherwise the configuration generated from the members the
\* transaction sees. acl: the locations with ACL on.
TryGetFirewallConfig(store, location_id, acl) ==
    IF location_id \in acl
    THEN <<[members |-> {r.device_id : r \in AllForNetwork(store, location_id)}]>>
    ELSE <<>>

\* The loop over the affected locations, in the order given: a location whose
\* evaluator returns a configuration pushes FirewallConfigChanged.
RECURSIVE FirewallEvents(_, _, _)
FirewallEvents(store, locations, acl) ==
    IF locations = <<>>
    THEN <<>>
    ELSE (IF TryGetFirewallConfig(store, Head(locations), acl) = <<>>
          THEN <<>>
          ELSE <<FirewallConfigChanged(
                     Head(locations),
                     TryGetFirewallConfig(store, Head(locations), acl)[1])>>)
         \o FirewallEvents(store, Tail(locations), acl)

\* The orders in which a collection without order may be iterated.
Orders(S) ==
    {o \in [1..Cardinality(S) -> S] : \A i, j \in DOMAIN o : o[i] = o[j] => i = j}

\* The stored row of a device id.
DeviceRow(devices, device_id) == CHOOSE dev \in devices : dev.id = device_id

\* The event sync_allowed_devices returns for device d: DeviceCreated for a
\* link it added, DeviceDeleted for a link it removed, DeviceModified for a
\* link it reassigned; none for a link it left alone.
SyncEvent(devices, before, after, network_id, d) ==
    IF Find(before, d, network_id) = Find(after, d, network_id)
    THEN <<>>
    ELSE IF Find(before, d, network_id) = {}
    THEN <<DeviceEvent("DeviceCreated", DeviceRow(devices, d), <<network_id>>)>>
    ELSE IF Find(after, d, network_id) = {}
    THEN <<DeviceEvent("DeviceDeleted", DeviceRow(devices, d), <<network_id>>)>>
    ELSE <<DeviceEvent("DeviceModified", DeviceRow(devices, d), <<network_id>>)>>

\* The events sync_allowed_devices returns, in the order of its loop.
RECURSIVE SyncEvents(_, _, _, _, _)
SyncEvents(devices, before, after, network_id, d) ==
    IF d > NumDevices
    THEN <<>>
    ELSE SyncEvent(devices, before, after, network_id, d)
         \o SyncEvents(devices, before, after, network_id, d + 1)

\* The events handle_imported_devices returns: one for each imported device
\* it linked, in the order of the import.
RECURSIVE ImportedEvents(_, _, _, _)
ImportedEvents(devices, after, network_id, imported) ==
    IF imported = <<>>
    THEN <<>>
    ELSE (IF Find(after, Head(imported).device, network_id) = {}
          THEN <<>>
          ELSE <<DeviceEvent("DeviceCreated",
                             DeviceRow(devices, Head(imported).device),
                             <<network_id>>)>>)
         \o ImportedEvents(devices, after, network_id, Tail(imported))

\* The Network device the store may hold from the start, with a key no
\* request brings before the lower keys are in use.
StoredNetworkDevices ==
    {[id |-> d, wireguard_pubkey |-> NumKeys, configured |-> c] :
        d \in NetworkDevice, c \in BOOLEAN}

\* The address lists of a network: one block of two hosts, at one place or
\* at another that shares no address with it.
EventLayouts == {<<Block(0, 4)>>, <<Block(4, 4)>>}

\* The ids add_device gives its User devices.
EventUsers == {1, 2}

InitEvents ==
    /\ wireguard_network \in {<<[address |-> a, pubkey |-> 1]>> : a \in EventLayouts}
    /\ wireguard_network_device = {}
    /\ last = Idle
    /\ tx = [t \in Tx |-> NoTx]
    /\ scenario = NoScenario
    /\ device \in {{}} \cup {{dev} : dev \in StoredNetworkDevices}
    /\ request = [t \in Tx |-> NoRequest]
    /\ events = <<>>
    /\ gateway_state = {}
    /\ lock = Unlocked
    /\ handler = NoHandler

DeviceIds == {dev.id : dev \in device}

\* The id Device::save gives a new User device: one no stored device has.
FreeDeviceIds == (UserDevice \cap EventUsers) \ DeviceIds

\* The networks in which a device has a link.
LinkedTo(store, device_id) ==
    {r.wireguard_network_id : r \in {x \in store : x.device_id = device_id}}

\* The links left when a device row is deleted: its links go with it.
DeleteDeviceLinks(store, device_id) == {r \in store : r.device_id # device_id}

\* The outcome of a handler that sent events: what it was given, what the
\* calls it made returned, and the locations with ACL on.
Dispatched(op, network_id, input, res, returned, acl) ==
    [op |-> op, network |-> network_id, input |-> input, res |-> res,
     calls |-> <<>>, returned |-> returned, acl |-> acl]

\* add_device with the firewall evaluator: after add_to_all_networks the
\* affected locations are those of network_info, iterated as a HashSet; the
\* FirewallConfigChanged events are pushed, then DeviceCreated, and the batch
\* is sent before the commit.
AddDeviceFirewall ==
    /\ last = Idle
    /\ FreeDeviceIds # {}
    /\ \E k \in RequestKeys, acl \in SUBSET DOMAIN wireguard_network :
       \E dev \in {[id |-> Min(FreeDeviceIds), wireguard_pubkey |-> k,
                    configured |-> TRUE]} :
       \E r \in {AddToAllNetworks(StartJoin(wireguard_network_device), dev,
                                   wireguard_network, 1, {})} :
       \E affected_location_ids \in Orders(SeqToSet(r.info)) :
           IF FindByPubkey(device, k) # {}
           THEN /\ last' = Dispatched("add_device", 0, <<dev>>, "PubkeyExists",
                                      <<>>, acl)
                /\ UNCHANGED <<device, wireguard_network_device, events>>
           ELSE /\ device' = Committed(device, device \cup {dev}, r.res)
                /\ wireguard_network_device' =
                       Committed(wireguard_network_device, r.store, r.res)
                /\ events' =
                       IF r.res = "Ok"
                       THEN SendMultipleWireguardEvents(
                                <<>>,
                                Append(FirewallEvents(
                                           View(wireguard_network_device, r.store),
                                           affected_location_ids, acl),
                                       DeviceEvent("DeviceCreated", dev, r.info)))
                       ELSE <<>>
                /\ last' = Dispatched("add_device", 0, <<dev>>, r.res, r.info, acl)
    /\ UNCHANGED <<wireguard_network, tx, scenario, request>>
    /\ UNCHANGED gatewayVars

\* delete_device: DeviceInfo::from_device reads the device's links, in the
\* order the store returns them; the device is deleted; the firewall
\* configuration of each of its networks is evaluated; the
\* FirewallConfigChanged events and then DeviceDeleted are sent.
DeleteDevice ==
    /\ last = Idle
    /\ \E dev \in device, acl \in SUBSET DOMAIN wireguard_network :
       \E network_info \in Orders(LinkedTo(wireguard_network_device, dev.id)) :
           /\ device' = device \ {dev}
           /\ wireguard_network_device' =
                  DeleteDeviceLinks(wireguard_network_device, dev.id)
           /\ events' =
                  SendMultipleWireguardEvents(
                      <<>>,
                      Append(FirewallEvents(
                                 View(wireguard_network_device,
                                      DeleteDeviceLinks(wireguard_network_device,
                                                        dev.id)),
                                 network_info, acl),
                             DeviceEvent("DeviceDeleted", dev, network_info)))
           /\ last' = Dispatched("delete_device", 0, <<dev>>, "Ok", network_info, acl)
    /\ UNCHANGED <<wireguard_network, tx, scenario, request>>
    /\ UNCHANGED gatewayVars

\* The devices a network's group settings may allow.
AllowedChoices == SUBSET (UserDevice \cap DeviceIds)

\* modify_network with the events: the network is saved, the membership is
\* synced and the events the sync returns are bound to _events and dropped;
\* NetworkModified is sent with the peers and the firewall configuration the
\* transaction sees.
ModifyNetworkEvents ==
    /\ last = Idle
    /\ \E n \in Networks, address \in EventLayouts, allowed \in AllowedChoices :
       \E acl \in SUBSET {n} :
       \E s \in {SyncAllowedDevices(wireguard_network_device, n, address, allowed, {})} :
           /\ last' = Dispatched("modify_network", n, <<allowed>>, s.res,
                                 SyncEvents(device, wireguard_network_device,
                                            s.store, n, 1),
                                 acl)
           /\ IF s.res = "Ok"
              THEN /\ wireguard_network' =
                          [wireguard_network EXCEPT ![n].address = address]
                   /\ wireguard_network_device' = s.store
                   /\ events' =
                          SendWireguardEvent(
                              <<>>,
                              NetworkModified(
                                  n,
                                  {r.device_id : r \in AllForNetwork(s.store, n)},
                                  TryGetFirewallConfig(s.store, n, acl)))
              ELSE UNCHANGED <<wireguard_network, wireguard_network_device, events>>
    /\ UNCHANGED <<tx, scenario, device, request>>
    /\ UNCHANGED gatewayVars

\* The imported devices of a configuration: stored Network devices without a
\* link, each declaring one address, in either order.
ImportedDevices ==
    {<<>>} \cup
    {<<[device |-> d, wireguard_ips |-> <<a>>]>> :
        d \in {x \in NetworkDevice \cap DeviceIds :
                  LinkedTo(wireguard_network_device, x) = {}},
        a \in {0, 1, 5}}

\* The keys of the gateways.
GatewayKeys == {wireguard_network[n].pubkey : n \in DOMAIN wireguard_network}

\* modify_device for a request that leaves the key or brings a gateway's.
ModifyDeviceEvents == ModifyDeviceWith(GatewayKeys)

\* import_network with the events: NetworkCreated is sent when the network is
\* saved, the events of handle_imported_devices when it returns, the events
\* of sync_allowed_devices when it returns; then the transaction commits. A
\* sync that fails returns before its events are sent and the transaction
\* rolls back.
ImportNetworkEvents ==
    /\ last = Idle
    /\ NextNetworkId \in GatewayNetworks
    /\ \E address \in EventLayouts, imported \in ImportedDevices,
          allowed \in AllowedChoices :
       \E n \in {NextNetworkId} :
       \E h \in {HandleImportedDevices(wireguard_network_device, n, address,
                                        imported, <<>>)} :
       \E s \in {SyncAllowedDevices(h.store, n, address, allowed,
                                     ImportReservedIps(imported))} :
       \E gateway_events \in
              {<<ImportedEvents(device, h.store, n, imported),
                 SyncEvents(device, h.store, s.store, n, 1)>>} :
          /\ last' = Dispatched("import_network", n, <<allowed, imported>>, s.res,
                                gateway_events, {})
          /\ events' =
                 IF s.res = "Ok"
                 THEN SendMultipleWireguardEvents(
                          SendMultipleWireguardEvents(
                              SendWireguardEvent(<<>>, NetworkEvent("NetworkCreated", n)),
                              gateway_events[1]),
                          gateway_events[2])
                 ELSE SendMultipleWireguardEvents(
                          SendWireguardEvent(<<>>, NetworkEvent("NetworkCreated", n)),
                          gateway_events[1])
          /\ IF s.res = "Ok"
             THEN /\ wireguard_network' =
                         Append(wireguard_network, [address |-> address, pubkey |-> n])
                  /\ wireguard_network_device' = s.store
             ELSE UNCHANGED <<wireguard_network, wireguard_network_device>>
    /\ UNCHANGED <<tx, scenario, device, request>>
    /\ UNCHANGED gatewayVars

\* The handlers that send gateway events, one request at a time.
NextEvents ==
    \/ AddDeviceFirewall
    \/ DeleteDevice
    \/ ModifyDeviceEvents
    \/ ModifyNetworkEvents
    \/ ImportNetworkEvents
    \/ ReturnDevices

SpecEvents == InitEvents /\ [][NextEvents]_vars

\* ------------------------------------------- a new device with an address
\* Device::new_with_ip on a network of one block that carries the network's
\* own interface address, as IpNetwork does: 10.1.1.1/30 is the block
\* 10.1.1.0/30 with the address 10.1.1.1.
InterfaceBlocks ==
    {[network |-> b.network, size |-> b.size, ip |-> i] :
        b \in Blocks, i \in Addr} \cap
    {b \in [network : Addr, size : BlockSizes, ip : Addr] : Contains(b, b.ip)}

\* Device::find_by_ip: the devices with a link in the network that holds ip.
FindByIp(store, ip, network_id) ==
    {r.device_id : r \in {x \in AllForNetwork(store, network_id) :
                             ip \in SeqToSet(x.wireguard_ips)}}

\* A loop that passes over the ends of the block only.
SkippedEnds(address, ip) == ip = Network(address) \/ ip = Broadcast(address)

\* ip == net_ip || ip == net_network || ip == net_broadcast
Skipped(address, ip) ==
    ip = address.ip \/ ip = Network(address) \/ ip = Broadcast(address)

\* The places in `for ip in address` at which new_with_ip stops: not
\* skipped, and find_by_ip finds no device.
Unassigned(store, network_id, address) ==
    {k \in DOMAIN BlockIps(address) :
        /\ ~Skipped(address, BlockIps(address)[k])
        /\ FindByIp(store, BlockIps(address)[k], network_id) = {}}

\* Vec::first: None, or Some of the first element.
First(s) == IF s = <<>> THEN <<>> ELSE <<Head(s)>>

InitNewWithIp ==
    /\ wireguard_network \in
           {<<[address |-> <<>>, pubkey |-> 1]>>}
           \cup {<<[address |-> <<b>>, pubkey |-> 1]>> : b \in InterfaceBlocks}
    /\ wireguard_network_device = {}
    /\ last = Idle
    /\ tx = [t \in Tx |-> NoTx]
    /\ scenario = NoScenario
    /\ device = {}
    /\ request = [t \in Tx |-> NoRequest]
    /\ events = <<>>
    /\ gateway_state = {}
    /\ lock = Unlocked
    /\ handler = NoHandler

\* What new_with_ip leaves: the request with the tables as they were, and the
\* (device, link) pair it returned, if any.
Created(network_id, wireguard_pubkey, res, returned) ==
    Outcome("new_with_ip", network_id,
            <<[wireguard_pubkey |-> wireguard_pubkey, device |-> device,
               wireguard_network_device |-> wireguard_network_device],
              returned>>,
            res, <<>>)

\* Device::new_with_ip: the first address of network.address.first() that is
\* not skipped and that no device holds gets a new device and its link; a
\* network without a block or without such an address returns CannotCreate
\* before anything is saved.
NewWithIp ==
    /\ last = Idle
    /\ NextDeviceId <= NumDevices
    /\ \E n \in DOMAIN wireguard_network, k \in Key :
       \E address \in {First(wireguard_network[n].address)} :
          IF address = <<>> \/ Unassigned(wireguard_network_device, n, address[1]) = {}
          THEN /\ last' = Created(n, k, "CannotCreate", <<>>)
               /\ UNCHANGED <<device, wireguard_network_device>>
          ELSE \E ip \in {BlockIps(address[1])[
                              Min(Unassigned(wireguard_network_device, n, address[1]))]} :
               \E dev \in {[id |-> NextDeviceId, wireguard_pubkey |-> k,
                            configured |-> TRUE]} :
                  /\ device' = device \cup {dev}
                  /\ wireguard_network_device' =
                         Insert(wireguard_network_device, NewLink(n, dev.id, <<ip>>))
                  /\ last' = Created(n, k, "Ok", <<dev, NewLink(n, dev.id, <<ip>>)>>)
    /\ UNCHANGED <<wireguard_network, tx, scenario, request, events>>
    /\ UNCHANGED gatewayVars

NextNewWithIp ==
    \/ NewWithIp
    \/ ReturnDevices

SpecNewWithIp == InitNewWithIp /\ [][NextNewWithIp]_vars

\* ------------------------------------------------ the links of a user
\* WireguardNetworkDevice::all_for_network_and_user over stores as
\* test_all_for_network_and_user builds them: two users, two networks, the
\* devices with any owner, linked in any of the networks.
Users == {1, 2}

\* device_type of a device id.
DeviceTypeOf(d) == IF d \in NetworkDevice THEN "network" ELSE "user"

\* The device tables: every device with an owner and its type.
OwnedDevices ==
    {{[id |-> d, user_id |-> owner[d], device_type |-> DeviceTypeOf(d)] : d \in Device} :
        owner \in [Device -> Users]}

\* The query without the device_type condition.
AllForNetworkAndUserAnyType(store, devices, network_id, user_id) ==
    {r \in store :
        /\ r.wireguard_network_id = network_id
        /\ r.device_id \in {dev.id : dev \in {x \in devices : x.user_id = user_id}}}

\* WHERE wireguard_network_id = $1 AND device_id IN
\* (SELECT id FROM device WHERE user_id = $2 AND device_type = 'user')
AllForNetworkAndUser(store, devices, network_id, user_id) ==
    {r \in store :
        /\ r.wireguard_network_id = network_id
        /\ r.device_id \in
               {dev.id : dev \in {x \in devices : /\ x.user_id = user_id
                                                  /\ x.device_type = "user"}}}

InitUserLinks ==
    /\ wireguard_network =
           <<[address |-> <<Block(0, 8)>>, pubkey |-> 1],
             [address |-> <<Block(0, 8)>>, pubkey |-> 2]>>
    /\ wireguard_network_device = {}
    /\ last = Idle
    /\ tx = [t \in Tx |-> NoTx]
    /\ scenario = NoScenario
    /\ device \in OwnedDevices
    /\ request = [t \in Tx |-> NoRequest]
    /\ events = <<>>
    /\ gateway_state = {}
    /\ lock = Unlocked
    /\ handler = NoHandler

\* A device is linked in a network: a User device by add_device_to_network,
\* a Network device by the insert of a link with the address it is given.
LinkDevice ==
    /\ last = Idle
    /\ \E dev \in device, n \in DOMAIN wireguard_network :
          /\ Find(wireguard_network_device, dev.id, n) = {}
          /\ wireguard_network_device' =
                 IF dev.device_type = "user"
                 THEN AddDeviceToNetwork(wireguard_network_device, dev.id, n,
                                         wireguard_network[n].address, {}).store
                 ELSE Insert(wireguard_network_device,
                             NewLink(n, dev.id,
                                     <<Broadcast(wireguard_network[n].address[1]) - 1>>))
    /\ UNCHANGED <<wireguard_network, last, tx, scenario, device, request, events>>
    /\ UNCHANGED gatewayVars

\* One call of all_for_network_and_user.
QueryUserLinks ==
    /\ last = Idle
    /\ \E n \in DOMAIN wireguard_network, user_id \in Users :
          last' = Outcome("all_for_network_and_user", n,
                          <<user_id,
                            AllForNetworkAndUser(wireguard_network_device, device,
                                                 n, user_id)>>,
                          "Ok", <<>>)
    /\ UNCHANGED <<wireguard_network, wireguard_network_device, tx, scenario, device,
                   request, events>>
    /\ UNCHANGED gatewayVars

NextUserLinks ==
    \/ LinkDevice
    \/ QueryUserLinks
    \/ ReturnDevices

SpecUserLinks == InitUserLinks /\ [][NextUserLinks]_vars

\* ------------------------------------------------------ the link table alone
\* Inserts, updates and deletes of WireguardNetworkDevice rows, with any row a
\* caller can build: two networks, the User devices, two address lists.
LinkNetworks == Net \cup {Cardinality(Net) + 1}
LinkRows ==
    {[NewLink(n, d, <<a>>) EXCEPT !.is_authorized = auth] :
        n \in LinkNetworks, d \in UserDevice, a \in {1, 2}, auth \in BOOLEAN}

\* The row of a (device, network) pair before an operation: None or Some.
PriorRow(store, row) ==
    IF Find(store, row.device_id, row.wireguard_network_id) = {}
    THEN <<>>
    ELSE <<CHOOSE r \in Find(store, row.device_id, row.wireguard_network_id) : TRUE>>

InitLinks ==
    /\ wireguard_network = <<>>
    /\ wireguard_network_device = {}
    /\ last = Idle
    /\ tx = [t \in Tx |-> NoTx]
    /\ scenario = NoScenario
    /\ device = {}
    /\ request = [t \in Tx |-> NoRequest]
    /\ events = <<>>
    /\ gateway_state = {}
    /\ lock = Unlocked
    /\ handler = NoHandler

\* The outcome of a link operation: the row given and the row it met.
LinkOutcome(op, row) ==
    Outcome(op, row.wireguard_network_id,
            <<row>> \o PriorRow(wireguard_network_device, row), "Ok", <<>>)

InsertLink ==
    /\ last = Idle
    /\ \E row \in LinkRows :
           /\ wireguard_network_device' = Insert(wireguard_network_device, row)
           /\ last' = LinkOutcome("insert", row)
    /\ UNCHANGED <<wireguard_network, tx, scenario, device, request, events>>
    /\ UNCHANGED gatewayVars

UpdateLink ==
    /\ last = Idle
    /\ \E row \in LinkRows :
           /\ wireguard_network_device' = Update(wireguard_network_device, row)
           /\ last' = LinkOutcome("update", row)
    /\ UNCHANGED <<wireguard_network, tx, scenario, device, request, events>>
    /\ UNCHANGED gatewayVars

RemoveLink ==
    /\ last = Idle
    /\ \E row \in LinkRows :
           /\ wireguard_network_device' =
                  Delete(wireguard_network_device, row.device_id, row.wireguard_network_id)
           /\ last' = LinkOutcome("delete", row)
    /\ UNCHANGED <<wireguard_network, tx, scenario, device, request, events>>
    /\ UNCHANGED gatewayVars

NextLinks ==
    \/ InsertLink
    \/ UpdateLink
    \/ RemoveLink
    \/ Return

SpecLinks == InitLinks /\ [][NextLinks]_vars

\* ------------------------------------------- allocation over a stored link
\* The allocator run for devices whose link may already be stored with a
\* preshared key and an authorization, as WireguardNetworkDevice::update
\* leaves them.
InitStoredLinks ==
    /\ wireguard_network \in {<<[address |-> a, pubkey |-> 1]>> : a \in JoinLayouts}
    /\ wireguard_network_device = {}
    /\ last = Idle
    /\ tx = [t \in Tx |-> NoTx]
    /\ scenario = NoScenario
    /\ device = {}
    /\ request = [t \in Tx |-> NoRequest]
    /\ events = <<>>
    /\ gateway_state = {}
    /\ lock = Unlocked
    /\ handler = NoHandler

\* What an allocator call leaves: the row it met, the link it returned, its
\* result and its record.
Allocated(a, network_id, device_id) ==
    Outcome(a.call.fn, network_id,
            <<PriorRow(wireguard_network_device,
                       NewLink(network_id, device_id, <<>>)),
              a.link>>,
            a.res, <<a.call>>)

\* WireguardNetworkDevice::update of a stored link with a preshared key and
\* an authorization, or without them.
AuthorizeLink ==
    /\ last = Idle
    /\ \E r \in wireguard_network_device, preshared_key \in {None, "psk"},
          authorized_at \in {None, "at"} :
           /\ wireguard_network_device' =
                  Update(wireguard_network_device,
                         [r EXCEPT !.preshared_key = preshared_key,
                                   !.authorized_at = authorized_at,
                                   !.is_authorized = authorized_at # None])
           /\ wireguard_network_device' # wireguard_network_device
    /\ UNCHANGED <<wireguard_network, last, tx, scenario, device, request, events>>
    /\ UNCHANGED gatewayVars

\* Device::assign_next_network_ip for a device with or without a link,
\* committed when it succeeds.
AssignNextStored ==
    /\ last = Idle
    /\ \E d \in Device, n \in Networks :
       \E current \in CurrentChoices(d, n) :
       \E a \in {AssignNextNetworkIp(wireguard_network_device, d, n,
                                       wireguard_network[n].address, {}, current)} :
           /\ wireguard_network_device' = a.store
           /\ last' = Allocated(a, n, d)
    /\ UNCHANGED <<wireguard_network, tx, scenario, device, request, events>>
    /\ UNCHANGED gatewayVars

\* Device::assign_network_ips for a device with or without a link.
AssignExactStored ==
    /\ last = Idle
    /\ \E d \in Device, n \in Networks, ip \in 0..3 :
       \E a \in {AssignNetworkIps(wireguard_network_device, d, n,
                                    wireguard_network[n].address, <<ip>>)} :
           /\ wireguard_network_device' = a.store
           /\ last' = Allocated(a, n, d)
    /\ UNCHANGED <<wireguard_network, tx, scenario, device, request, events>>
    /\ UNCHANGED gatewayVars

NextStoredLinks ==
    \/ AuthorizeLink
    \/ AssignNextStored
    \/ AssignExactStored
    \/ Return

SpecStoredLinks == InitStoredLinks /\ [][NextStoredLinks]_vars

\* ------------------------------------------------- the deletion of a network

\* The devices get_devices_by_type would return without looking at the type.
GetDevicesOfAnyType(store, devices, network_id, device_type) ==
    {dev \in devices : Find(store, dev.id, network_id) # {}}

\* WireguardNetwork::get_devices_by_type: the devices of the type that have
\* a link in the network.
GetDevicesByType(store, devices, network_id, device_type) ==
    {dev \in devices : /\ dev.device_type = device_type
                        /\ Find(store, dev.id, network_id) # {}}

\* The links left when a network row is deleted: its links go with it.
DeleteNetworkLinks(store, network_id) ==
    {r \in store : r.wireguard_network_id # network_id}

\* The network table without a row.
WithoutNetwork(networks, network_id) ==
    [n \in DOMAIN networks \ {network_id} |-> networks[n]]

\* The statements of delete_network that can fail after find_network, and
\* "none" for a request in which none does.
DeleteNetworkFailures == {"none", "device.delete", "network.delete", "commit",
                          "update_counts"}

\* delete_network: find_network, then in one transaction the Network devices
\* of the network and the network row are deleted; after the commit
\* NetworkDeleted is sent, and update_counts runs last.
DeleteNetwork ==
    /\ last = Idle
    /\ \E network_id \in GatewayNetworks, fails \in DeleteNetworkFailures :
       \E network_devices \in {GetDevicesByType(wireguard_network_device, device,
                                                 network_id, "network")} :
          IF network_id \notin DOMAIN wireguard_network
          THEN /\ last' = Outcome("delete_network", network_id, <<fails>>,
                                   "ObjectNotFound", <<>>)
               /\ UNCHANGED <<wireguard_network, wireguard_network_device, device,
                              events>>
          ELSE IF \/ fails \in {"network.delete", "commit"}
                  \/ fails = "device.delete" /\ network_devices # {}
          THEN /\ last' = Outcome("delete_network", network_id, <<fails>>,
                                   "DbError", <<>>)
               /\ UNCHANGED <<wireguard_network, wireguard_network_device, device,
                              events>>
          ELSE /\ device' = device \ network_devices
               /\ wireguard_network_device' =
                      DeleteNetworkLinks(
                          {r \in wireguard_network_device :
                              r.device_id \notin {dev.id : dev \in network_devices}},
                          network_id)
               /\ wireguard_network' = WithoutNetwork(wireguard_network, network_id)
               /\ events' = SendWireguardEvent(events,
                                               NetworkEvent("NetworkDeleted", network_id))
               /\ last' = Outcome("delete_network", network_id, <<fails>>,
                                   IF fails = "update_counts" THEN "DbError" ELSE "Ok",
                                   <<>>)
    /\ UNCHANGED <<tx, scenario, request>>
    /\ UNCHANGED gatewayVars

NextDeleteNetwork ==
    \/ LinkDevice
    \/ DeleteNetwork
    \/ ReturnDevices

SpecDeleteNetwork == InitUserLinks /\ [][NextDeleteNetwork]_vars

\* ------------------------------------------- the preconditions of add_device

\* What BASE64_STANDARD.decode makes of the text of a key: an error, or
\* bytes that are fewer than, as many as, or more than KEY_LENGTH.
Decoded == {"Err", "short", "KEY_LENGTH", "long"}

\* A check that asks only for text that decodes.
ValidatePubkeyDecodes(decoded) == decoded # "Err"

\* Device::validate_pubkey
ValidatePubkey(decoded) == decoded = "KEY_LENGTH"

\* The sessions and targets of a request: the user of the session, whether
\* the session is an admin's, the user named in the path (0 names no user)
\* and whether that user is active.
AddDeviceRequests ==
    [session_user : Users, is_admin : BOOLEAN, username : Users \cup {0},
     is_active : BOOLEAN, wireguard_pubkey : RequestKeys, decoded : Decoded]

\* user_for_admin_or_self
UserForAdminOrSelf(req) ==
    IF req.session_user = req.username \/ req.is_admin
    THEN IF req.username \in Users THEN "Ok" ELSE "ObjectNotFound"
    ELSE "Forbidden"

\* The checks of add_device before its transaction, in the order of the
\* handler: the first that fails is the response.
AddDeviceChecks(req, networks, devices) ==
    IF UserForAdminOrSelf(req) # "Ok" THEN UserForAdminOrSelf(req)
    ELSE IF ~req.is_active /\ ~req.is_admin THEN "Forbidden"
    ELSE IF networks = <<>> THEN "BadRequest"
    ELSE IF ~ValidatePubkey(req.decoded) THEN "PubkeyValidation"
    ELSE IF FindByPubkey(devices, req.wireguard_pubkey) # {} THEN "PubkeyExists"
    ELSE "Ok"

\* add_device from the session to the commit.
AddDeviceFor ==
    /\ last = Idle
    /\ NextDeviceId <= NumDevices
    /\ \E req \in AddDeviceRequests :
       \E dev \in {[id |-> NextDeviceId, wireguard_pubkey |-> req.wireguard_pubkey]} :
       \E r \in {AddToAllNetworks(StartJoin(wireguard_network_device), dev,
                                   wireguard_network, 1, {})} :
           IF AddDeviceChecks(req, wireguard_network, device) # "Ok"
           THEN /\ last' = Outcome("add_device", 0, <<dev, req>>,
                                   AddDeviceChecks(req, wireguard_network, device),
                                   <<>>)
                /\ UNCHANGED <<device, wireguard_network_device, events>>
           ELSE /\ device' = Committed(device, device \cup {dev}, r.res)
                /\ wireguard_network_device' =
                       Committed(wireguard_network_device, r.store, r.res)
                /\ events' = IF r.res = "Ok"
                             THEN <<DeviceEvent("DeviceCreated", dev, r.network_info)>>
                             ELSE <<>>
                /\ last' = Outcome("add_device", 0, <<dev, req>>, r.res, r.calls)
    /\ UNCHANGED <<wireguard_network, tx, scenario, request>>
    /\ UNCHANGED gatewayVars

NextAddDeviceFor ==
    \/ AddDeviceFor
    \/ ReturnDevices

SpecAddDeviceFor == InitDevices /\ [][NextAddDeviceFor]_vars

\* --------------------------------------------- the device of a session

\* The user table: ids and the usernames sessions and paths carry.
UserTable == {[id |-> 1, username |-> "alice"], [id |-> 2, username |-> "bob"]}

\* SessionInfo as the handlers read it.
Sessions == [username : {u.username : u \in UserTable}, is_admin : BOOLEAN]

\* The device ids of requests; 0 is the id of no device.
RequestedDevices == Device \cup {0}

\* The device tables: OwnedDevices with device d holding the key d + 2, so
\* that no device has the gateway key of the network.
SessionDevices ==
    {{[id |-> dev.id, user_id |-> dev.user_id, device_type |-> dev.device_type,
       wireguard_pubkey |-> dev.id + 2] : dev \in devices} :
        devices \in OwnedDevices}

\* Device::find_by_id
FindById(devices, id) == {dev \in devices : dev.id = id}

\* A lookup that does not read the username.
FindByIdOfAnyUser(devices, users, id, username) == FindById(devices, id)

\* Device::find_by_id_and_username: device JOIN "user" ON device.user_id =
\* "user".id WHERE device.id = $1 AND "user".username = $2
FindByIdAndUsername(devices, users, id, username) ==
    {dev \in devices :
        /\ dev.id = id
        /\ \E u \in users : u.id = dev.user_id /\ u.username = username}

\* device_for_admin_or_self: the set is empty for WebError::ObjectNotFound.
DeviceForAdminOrSelf(devices, users, session, id) ==
    IF session.is_admin
    THEN FindById(devices, id)
    ELSE FindByIdAndUsername(devices, users, id, session.username)

\* format!("device id {id} not found")
DeviceNotFound(id) == [msg |-> "device id not found", id |-> id]

\* The response of a handler to which device_for_admin_or_self gave Err.
NotFound(op, session, id) ==
    /\ last' = Outcome(op, 0, <<session, id>>, "ObjectNotFound", <<DeviceNotFound(id)>>)
    /\ UNCHANGED <<device, wireguard_network_device, events>>

InitSession ==
    /\ wireguard_network = <<[address |-> <<Block(0, 8)>>, pubkey |-> 1]>>
    /\ wireguard_network_device = {}
    /\ last = Idle
    /\ tx = [t \in Tx |-> NoTx]
    /\ scenario = NoScenario
    /\ device \in SessionDevices
    /\ request = [t \in Tx |-> NoRequest]
    /\ events = <<>>
    /\ gateway_state = {}
    /\ lock = Unlocked
    /\ handler = NoHandler

\* get_device
GetDevice ==
    /\ last = Idle
    /\ \E session \in Sessions, id \in RequestedDevices :
       \E fetch \in {DeviceForAdminOrSelf(device, UserTable, session, id)} :
           IF fetch = {}
           THEN NotFound("get_device", session, id)
           ELSE /\ last' = Outcome("get_device", 0, <<session, id>>, "Ok",
                                   <<CHOOSE dev \in fetch : TRUE>>)
                /\ UNCHANGED <<device, wireguard_network_device, events>>
    /\ UNCHANGED <<wireguard_network, tx, scenario, request>>
    /\ UNCHANGED gatewayVars

\* modify_device with the key of a gateway, the key the device has, or a key
\* not in use.
ModifyDeviceOf ==
    /\ last = Idle
    /\ \E session \in Sessions, id \in RequestedDevices :
       \E fetch \in {DeviceForAdminOrSelf(device, UserTable, session, id)} :
           IF fetch = {}
           THEN /\ NotFound("modify_device", session, id)
           ELSE \E dev \in fetch :
                \E k \in {1, dev.wireguard_pubkey, NumDevices + 3} :
                    IF \/ wireguard_network = <<>>
                       \/ IsGatewayKey(wireguard_network, k)
                    THEN /\ last' = Outcome("modify_device", 0, <<session, id>>,
                                            "BadRequest", <<>>)
                         /\ UNCHANGED <<device, events>>
                    ELSE /\ device' = UpdateFrom(device, dev, k)
                         /\ events' =
                                <<DeviceEvent("DeviceModified",
                                              [dev EXCEPT !.wireguard_pubkey = k],
                                              LinkedNetworks(wireguard_network_device,
                                                             dev, wireguard_network))>>
                         /\ last' = Outcome("modify_device", 0, <<session, id>>,
                                            "Ok", <<>>)
    /\ UNCHANGED <<wireguard_network, wireguard_network_device, tx, scenario, request>>
    /\ UNCHANGED gatewayVars

\* delete_device with the firewall off.
DeleteDeviceOf ==
    /\ last = Idle
    /\ \E session \in Sessions, id \in RequestedDevices :
       \E fetch \in {DeviceForAdminOrSelf(device, UserTable, session, id)} :
           IF fetch = {}
           THEN NotFound("delete_device", session, id)
           ELSE \E dev \in fetch :
                /\ device' = device \ {dev}
                /\ wireguard_network_device' =
                       DeleteDeviceLinks(wireguard_network_device, dev.id)
                /\ events' =
                       <<DeviceEvent("DeviceDeleted", dev,
                                     LinkedNetworks(wireguard_network_device, dev,
                                                    wireguard_network))>>
                /\ last' = Outcome("delete_device", 0, <<session, id>>, "Ok", <<>>)
    /\ UNCHANGED <<wireguard_network, tx, scenario, request>>
    /\ UNCHANGED gatewayVars

\* download_config: find_network, then the device, then its link in the
\* network.
DownloadConfig ==
    /\ last = Idle
    /\ \E session \in Sessions, id \in RequestedDevices,
          network_id \in GatewayNetworks :
       \E fetch \in {DeviceForAdminOrSelf(device, UserTable, session, id)} :
       \E link \in {Find(wireguard_network_device, id, network_id)} :
           /\ last' =
                  IF network_id \notin DOMAIN wireguard_network
                  THEN Outcome("download_config", network_id, <<session, id>>,
                               "ObjectNotFound",
                               <<[msg |-> "network not found", id |-> network_id]>>)
                  ELSE IF fetch = {}
                  THEN Outcome("download_config", network_id, <<session, id>>,
                               "ObjectNotFound", <<DeviceNotFound(id)>>)
                  ELSE IF link = {}
                  THEN Outcome("download_config", network_id, <<session, id>>,
                               "ObjectNotFound",
                               <<[msg |-> "No IP address found for device", id |-> id]>>)
                  ELSE Outcome("download_config", network_id, <<session, id>>, "Ok",
                               <<DeviceConfig(CHOOSE l \in link : TRUE)>>)
           /\ UNCHANGED <<device, wireguard_network_device, events>>
    /\ UNCHANGED <<wireguard_network, tx, scenario, request>>
    /\ UNCHANGED gatewayVars

NextSession ==
    \/ LinkDevice
    \/ GetDevice
    \/ ModifyDeviceOf
    \/ DeleteDeviceOf
    \/ DownloadConfig
    \/ ReturnDevices

SpecSession == InitSession /\ [][NextSession]_vars

\* ------------------------------------------------ the aggregation of stats

\* TimeDelta::hours, in minutes.
Hours(n) == n * 60

\* Utc::now() of a request, in minutes, and the `from` of its query: up to
\* seven hours before the earlier now and a few minutes after the later.
AggregationNow == {Hours(7), Hours(7) + 1}
AggregationFrom == 0..(Hours(7) + 3)

\* get_aggregation: the arms of the match on now - from, in their order.
GetAggregation(now, from) ==
    IF now - from >= Hours(6) THEN [res |-> "Ok", aggregation |-> "Hour"]
    ELSE IF now - from < 0 THEN [res |-> "BAD_REQUEST", aggregation |-> "none"]
    ELSE [res |-> "Ok", aggregation |-> "Minute"]

\* One call of get_aggregation.
Aggregate ==
    /\ last = Idle
    /\ \E now \in AggregationNow, from \in AggregationFrom :
           last' = Returned("get_aggregation", [now |-> now, from |-> from],
                            GetAggregation(now, from))
    /\ UNCHANGED <<storeVars, gatewayVars>>

NextAggregation ==
    \/ Aggregate
    \/ ReturnView

SpecAggregation == Init /\ [][NextAggregation]_vars

\* ------------------------------------------------------------------ claims
\* The host addresses of a block: all but its network and broadcast address.
Hosts(b) == {ip \in Addr : Contains(b, ip) /\ ip # Network(b) /\ ip # Broadcast(b)}

\* The allocator calls of the operation that has just run.
AllCalls == {last.calls[k] : k \in DOMAIN last.calls}
NextIpCalls == {c \in AllCalls : c.fn = "assign_next_network_ip"}

\* The addresses of block i a call may hand out: hosts no other device held
\* and the caller did not reserve.
Eligible(c, i) == Hosts(c.address[i]) \ (c.taken \cup c.reserved)

\* The current addresses of a call that lie in block i, and the first of them.
CurrentIn(c, i) == {k \in DOMAIN c.current : Contains(c.address[i], c.current[k])}
FirstCurrentIn(c, i) == c.current[Min(CurrentIn(c, i))]

\* C1: executed one at a time, the allocator calls and link deletions never
\* leave an address held by the links of two distinct devices of one network.
C1_UniqueAddress ==
    \A r1, r2 \in wireguard_network_device :
        (r1.wireguard_network_id = r2.wireguard_network_id /\ r1.device_id # r2.device_id)
            => SeqToSet(r1.wireguard_ips) \cap SeqToSet(r2.wireguard_ips) = {}

C1_Witness ==
    /\ last.op = "assign_next_network_ip" /\ last.res = "Ok"
    /\ \E r1, r2 \in wireguard_network_device :
          /\ r1.device_id # r2.device_id
          /\ r1.wireguard_network_id = r2.wireguard_network_id
          /\ r1.device_id = last.calls[1].device
          /\ r1.wireguard_ips # <<>> /\ r2.wireguard_ips # <<>>

\* C3: every address a successful assign_next_network_ip returns lies in a
\* block of the network and is neither its network nor its broadcast address.
C3_InsideBlock ==
    \A c \in NextIpCalls :
        c.res = "Ok" =>
            \A i \in DOMAIN c.ips :
                \E j \in DOMAIN c.address : c.ips[i] \in Hosts(c.address[j])

\* C6 as stated: a valid current address a in block B is the link's address
\* for B.
C6_AnyCurrentKept ==
    \A c \in NextIpCalls :
        c.res = "Ok" =>
            \A i \in DOMAIN c.address :
                \A a \in SeqToSet(c.current) :
                    a \in Hosts(c.address[i]) \ c.taken => c.ips[i] = a

\* C6 amended: the first current address lying in block B, when valid, is the
\* link's address for B, whichever lower addresses of B are free.
C6_FirstCurrentKept ==
    \A c \in NextIpCalls :
        c.res = "Ok" =>
            \A i \in DOMAIN c.address :
                (CurrentIn(c, i) # {} /\ FirstCurrentIn(c, i) \in Hosts(c.address[i]) \ c.taken)
                    => c.ips[i] = FirstCurrentIn(c, i)

C6_Witness ==
    \E c \in NextIpCalls :
        /\ c.res = "Ok"
        /\ \E i \in DOMAIN c.address :
              /\ CurrentIn(c, i) # {}
              /\ FirstCurrentIn(c, i) \in Hosts(c.address[i]) \ c.taken
              /\ c.ips[i] = FirstCurrentIn(c, i)
              /\ \E low \in Eligible(c, i) : low < c.ips[i]

\* C7: a current address in a block that fails the validity check (network or
\* broadcast address, or held by another device) is not kept; the block is
\* scanned instead.
C7_InvalidCurrentNotKept ==
    \A c \in NextIpCalls :
        c.res = "Ok" =>
            \A i \in DOMAIN c.address :
                (CurrentIn(c, i) # {} /\ FirstCurrentIn(c, i) \notin Hosts(c.address[i]) \ c.taken)
                    => /\ c.ips[i] # FirstCurrentIn(c, i)
                       /\ c.ips[i] = Min(Eligible(c, i))

\* C8: for a block without a kept current address the call returns the lowest
\* address of the block that is a host address, not held by another device
\* and not reserved; it fails only when some such block has none.
C8_LowestEligible ==
    \A c \in NextIpCalls :
        /\ c.res = "Ok" =>
              \A i \in DOMAIN c.address :
                  CurrentIn(c, i) = {} =>
                      /\ Eligible(c, i) # {}
                      /\ c.ips[i] = Min(Eligible(c, i))
        /\ c.res # "Ok" =>
              \E i \in DOMAIN c.address : CurrentIn(c, i) = {} /\ Eligible(c, i) = {}

C8_Witness ==
    \E c \in NextIpCalls :
        /\ c.res = "Ok"
        /\ \E i \in DOMAIN c.address :
              /\ CurrentIn(c, i) = {}
              /\ c.ips[i] = Min(Eligible(c, i))
              /\ \E t \in c.taken : t \in Hosts(c.address[i]) /\ t < c.ips[i]
              /\ \E hi \in Eligible(c, i) : hi > c.ips[i]

\* C2: two concurrent assign_next_network_ip transactions for different
\* devices of one network never both commit a link holding the same address.
C2_NoSharedCommit ==
    \A r1 \in wireguard_network_device :
        \A r2 \in wireguard_network_device \ {r1} :
            (r1.device_id # r2.device_id /\ r1.wireguard_network_id = r2.wireguard_network_id)
                => \A i \in DOMAIN r1.wireguard_ips, j \in DOMAIN r2.wireguard_ips :
                       r1.wireguard_ips[i] # r2.wireguard_ips[j]

\* Some block of the call needs a scan and has no address to hand out.
Exhausted(c) ==
    \E i \in DOMAIN c.address : CurrentIn(c, i) = {} /\ Eligible(c, i) = {}

\* C4: when some block has no assignable address, assign_next_network_ip
\* returns CannotCreate and leaves the link table as it was: the addresses
\* chosen for earlier blocks are not written.
C4_AllOrNothing ==
    [][(last = Idle /\ last'.op = "assign_next_network_ip")
          => \A c \in {last'.calls[1]} :
                 Exhausted(c) =>
                     /\ c.res = "CannotCreate"
                     /\ wireguard_network_device' = wireguard_network_device]_vars

C4_Witness ==
    /\ last.op = "assign_next_network_ip" /\ last.res = "CannotCreate"
    /\ \E c \in NextIpCalls :
          /\ Len(c.address) = 2
          /\ Eligible(c, 1) # {}
          /\ CurrentIn(c, 2) = {} /\ Eligible(c, 2) = {}
          /\ \A r \in wireguard_network_device : r.device_id # c.device

\* The devices other than the caller whose links hold a host address of the
\* call's first block.
HoldersBefore(c, store) ==
    {r.device_id : r \in {x \in AllForNetwork(store, c.network) :
                             /\ x.device_id # c.device
                             /\ SeqToSet(x.wireguard_ips) \cap Hosts(c.address[1]) # {}}}

\* C5: in a network of one block of size 4 whose two host addresses are held
\* by two devices, assign_next_network_ip for a third device fails with
\* CannotCreate and the links are what they were before the call.
C5_FullBlockRefuses ==
    [][(last = Idle /\ last'.op = "assign_next_network_ip")
          => \A c \in {last'.calls[1]} :
                 (/\ Len(c.address) = 1
                  /\ c.address[1].size = 4
                  /\ Cardinality(HoldersBefore(c, wireguard_network_device)) = 2
                  /\ Find(wireguard_network_device, c.device, c.network) = {})
                     => /\ c.res = "CannotCreate"
                        /\ wireguard_network_device' = wireguard_network_device]_vars

C5_Witness ==
    /\ last.op = "assign_next_network_ip" /\ last.res = "CannotCreate"
    /\ \E c \in NextIpCalls :
          /\ Len(c.address) = 1
          /\ c.address[1].size = 4
          /\ Cardinality(HoldersBefore(c, wireguard_network_device)) = 2
          /\ Find(wireguard_network_device, c.device, c.network) = {}

\* The address lists of the links of device d in network 1.
IpsOf(d) == {r.wireguard_ips : r \in Find(wireguard_network_device, d, 1)}

\* The k-th host address of every block of network 1.
HostAt(k) ==
    [i \in DOMAIN wireguard_network[1].address |->
        Network(wireguard_network[1].address[i]) + k]

\* C9: in a network of /30 blocks A gets the first host address and B the
\* second, C is refused; once the link of one holder is removed C gets the
\* freed address, and the other holder's address never changes.
C9_FreedAddressReused ==
    /\ scenario.step = "a_assigned" => IpsOf(scenario.a) = {HostAt(1)}
    /\ scenario.step \in {"b_assigned", "c_refused"} =>
          /\ IpsOf(scenario.a) = {HostAt(1)}
          /\ IpsOf(scenario.b) = {HostAt(2)}
    /\ scenario.step = "c_refused" =>
          /\ last.res = "CannotCreate"
          /\ IpsOf(scenario.c) = {}
    /\ scenario.step = "removed" =>
          /\ IpsOf(scenario.removed) = {}
          /\ IpsOf(scenario.c) = {}
    /\ scenario.step = "c_assigned" =>
          /\ last.res = "Ok"
          /\ IpsOf(scenario.removed) = {}
          /\ IpsOf(scenario.c) =
                {IF scenario.removed = scenario.a THEN HostAt(1) ELSE HostAt(2)}
    /\ scenario.step \in {"removed", "c_assigned"} =>
          /\ scenario.removed = scenario.a => IpsOf(scenario.b) = {HostAt(2)}
          /\ scenario.removed = scenario.b => IpsOf(scenario.a) = {HostAt(1)}

C9_Witness ==
    /\ scenario.step = "c_assigned"
    /\ scenario.removed = scenario.a
    /\ wireguard_network[1].address = <<Block(0, 4)>>
    /\ IpsOf(scenario.c) = {<<1>>}
    /\ IpsOf(scenario.b) = {<<2>>}
    /\ IpsOf(scenario.a) = {}

\* Every address the imported devices of the import that has just run declare.
ImportedAddresses ==
    UNION {SeqToSet(last.input[k].wireguard_ips) : k \in DOMAIN last.input}

\* C10: import_network passes every address an imported device declares as
\* reserved to sync_allowed_devices, and the scan of assign_next_network_ip
\* never selects a reserved address, free in the store or not.
C10_ReservedNeverSelected ==
    /\ last.op = "import_network" =>
          \A c \in NextIpCalls :
              /\ c.reserved = ImportedAddresses
              /\ SeqToSet(c.ips) \cap ImportedAddresses = {}
    /\ \A c \in NextIpCalls :
          \A i \in DOMAIN c.ips :
              CurrentIn(c, i) = {} => c.ips[i] \notin c.reserved

C10_Witness ==
    /\ last.op = "import_network" /\ last.res = "Ok"
    /\ \E c \in NextIpCalls :
          /\ c.res = "Ok"
          /\ \E i \in DOMAIN c.ips :
                \E r \in c.reserved :
                    /\ r \in Hosts(c.address[i]) \ c.taken
                    /\ r < c.ips[i]

\* The calls of assign_network_ips of the operation that has just run.
ExactCalls == {c \in AllCalls : c.fn = "assign_network_ips"}

\* C11: assign_network_ips writes a link only if every given address lies in
\* its corresponding block and is not held by another device of the network.
C11_ExactInCorrespondingBlock ==
    \A c \in ExactCalls :
        c.res = "Ok" =>
            \A i \in DOMAIN c.ips :
                /\ i \in DOMAIN c.address
                /\ Contains(c.address[i], c.ips[i])
                /\ c.ips[i] \notin c.taken

\* C17: every link written by assign_next_network_ip or assign_network_ips
\* has as many addresses as the network has blocks, the i-th address in the
\* i-th block.
C17_OneAddressPerBlock ==
    \A c \in AllCalls :
        c.res = "Ok" =>
            /\ Len(c.ips) = Len(c.address)
            /\ \A i \in DOMAIN c.ips : Contains(c.address[i], c.ips[i])

\* C18: after any inserts, updates and deletes the link table holds at most
\* one row per (device, network) pair; an insert for a pair that has a row
\* leaves that one row, with the addresses of the inserted row.
C18_OneLinkPerPair ==
    /\ \A r1, r2 \in wireguard_network_device :
          (r1.device_id = r2.device_id /\ r1.wireguard_network_id = r2.wireguard_network_id)
              => r1 = r2
    /\ last.op = "insert" =>
          /\ Find(wireguard_network_device, last.input[1].device_id,
                  last.input[1].wireguard_network_id) # {}
          /\ \A r \in Find(wireguard_network_device, last.input[1].device_id,
                           last.input[1].wireguard_network_id) :
                 r.wireguard_ips = last.input[1].wireguard_ips

C18_Witness ==
    /\ last.op = "insert"
    /\ Len(last.input) = 2
    /\ last.input[2].wireguard_ips # last.input[1].wireguard_ips
    /\ Cardinality(Find(wireguard_network_device, last.input[1].device_id,
                        last.input[1].wireguard_network_id)) = 1
    /\ Cardinality(wireguard_network_device) > 1

\* The outcomes of handlers that ran add_to_all_networks.
JoinOutcomes == {"add_device", "add_to_all_networks"}
Joined == last.op \in JoinOutcomes /\ "info" \in DOMAIN last

\* The networks whose gateway key is the key of a device.
ConflictingNetworks(dev) ==
    {n \in DOMAIN wireguard_network : wireguard_network[n].pubkey = dev.wireguard_pubkey}

\* C12: when the key of the device equals the gateway key of a network,
\* add_to_all_networks returns PubkeyConflict, and after add_device neither
\* the device nor any link of it is stored, the links written for the
\* networks before the conflicting one included, and no event is sent.
C12_ConflictCommitsNothing ==
    (Joined /\ ConflictingNetworks(last.input[1]) # {}) =>
        /\ last.res = "PubkeyConflict"
        /\ last.op = "add_device" =>
              /\ \A dev \in device : dev.id # last.input[1].id
              /\ \A r \in wireguard_network_device : r.device_id # last.input[1].id
              /\ events = <<>>
    /\ gateway_state = {}
    /\ lock = Unlocked
    /\ handler = NoHandler

\* add_device met the conflict at the second network, after the allocator
\* had written a link for the first.
C12_Witness ==
    /\ Joined
    /\ last.op = "add_device"
    /\ last.res = "PubkeyConflict"
    /\ ConflictingNetworks(last.input[1]) = {2}
    /\ Len(last.calls) = 1
    /\ last.calls[1].res = "Ok"
    /\ last.calls[1].network = 1
    /\ \A r \in wireguard_network_device : r.device_id # last.input[1].id

\* The call repeated on the links as they are, by a store that rejects nothing.
JoinAgain(dev) ==
    AddToAllNetworks(StartJoin(wireguard_network_device), dev, wireguard_network, 1, {})

\* C13: add_to_all_networks is idempotent. After a call that returned Ok and
\* met no store error, the same call made again allocates for no network in
\* which the device has a link, changes no link and returns empty lists.
C13_Idempotent ==
    (/\ Joined
     /\ last.res = "Ok"
     /\ \A i \in DOMAIN last.calls : last.calls[i].res # "DbError") =>
        \E r \in {JoinAgain(last.input[1])} :
            /\ r.res = "Ok"
            /\ r.store = wireguard_network_device
            /\ r.info = <<>>
            /\ \A i \in DOMAIN r.calls :
                  Find(wireguard_network_device, last.input[1].id,
                       r.calls[i].network) = {}

\* A call that skipped network 1, where the device had its link, and
\* allocated in network 2 only.
C13_Witness ==
    /\ Joined
    /\ last.op = "add_to_all_networks"
    /\ last.res = "Ok"
    /\ last.info = <<2>>
    /\ Len(last.calls) = 1
    /\ last.calls[1].res = "Ok"
    /\ Find(wireguard_network_device, last.input[1].id, 1) # {}
    /\ Find(wireguard_network_device, last.input[1].id, 2) # {}
    /\ JoinAgain(last.input[1]).info = <<>>

\* C14: a network without a free address does not abort add_to_all_networks.
\* The call returns Ok; the network whose allocation failed has no link of
\* the device and is not in the returned list; every network whose
\* allocation succeeded has the link and is in the list; and no network with
\* a free address is left without a link.
C14_ExhaustionSkipsNetwork ==
    (/\ Joined
     /\ ConflictingNetworks(last.input[1]) = {}
     /\ \A i \in DOMAIN last.calls : last.calls[i].res # "DbError") =>
        /\ last.res = "Ok"
        /\ \A i \in DOMAIN last.calls :
              IF last.calls[i].res = "Ok"
              THEN /\ last.calls[i].network \in SeqToSet(last.info)
                   /\ \E r \in Find(wireguard_network_device, last.input[1].id,
                                    last.calls[i].network) :
                          r.wireguard_ips = last.calls[i].ips
              ELSE /\ last.calls[i].network \notin SeqToSet(last.info)
                   /\ Find(wireguard_network_device, last.input[1].id,
                           last.calls[i].network) = {}
        /\ \A n \in DOMAIN wireguard_network :
              \/ Find(wireguard_network_device, last.input[1].id, n) # {}
              \/ AddDeviceToNetwork(wireguard_network_device, last.input[1].id, n,
                                    wireguard_network[n].address, {}).res = "CannotCreate"

\* add_device found network 1 full and joined network 2.
C14_Witness ==
    /\ Joined
    /\ last.op = "add_device"
    /\ last.res = "Ok"
    /\ Len(last.calls) = 2
    /\ last.calls[1].res = "CannotCreate"
    /\ last.calls[1].network = 1
    /\ last.calls[2].res = "Ok"
    /\ last.info = <<2>>
    /\ last.input[1] \in device
    /\ Find(wireguard_network_device, last.input[1].id, 1) = {}
    /\ Find(wireguard_network_device, last.input[1].id, 2) # {}

\* C15: a store error met while the device is added to a network is
\* propagated: a call of add_to_all_networks in which an insert was rejected
\* does not return Ok.
C15_StoreErrorPropagated ==
    Joined =>
        ((\E i \in DOMAIN last.calls : last.calls[i].res = "DbError")
            => last.res # "Ok")

\* C16: an insert that the store rejects ends the allocator call as a
\* failure to allocate: every call of assign_next_network_ip ends Ok or
\* CannotCreate.
C16_RejectedInsertIsCannotCreate ==
    Joined =>
        \A i \in DOMAIN last.calls :
            last.calls[i].fn = "assign_next_network_ip"
                => last.calls[i].res \in {"Ok", "CannotCreate"}

\* C19: after any sequence of add_device and modify_device no stored device
\* has the gateway key of a network; add_device ends with PubkeyConflict and
\* stores nothing, modify_device answers 400, leaves the record as it was and
\* sends no DeviceModified.
C19_NoGatewayKeyStored ==
    /\ \A dev \in device : ConflictingNetworks(dev) = {}
    /\ (Joined /\ last.op = "add_device" /\ ConflictingNetworks(last.input[1]) # {}) =>
          /\ last.res = "PubkeyConflict"
          /\ \A dev \in device : dev.id # last.input[1].id
    /\ (last.op = "modify_device" /\ ConflictingNetworks(last.input[2]) # {}) =>
          /\ last.res = "BadRequest"
          /\ last.input[1] \in device
          /\ events = <<>>
    /\ gateway_state = {}
    /\ lock = Unlocked
    /\ handler = NoHandler

\* modify_device refused the gateway key of network 2 for a stored device.
C19_Witness ==
    /\ last.op = "modify_device"
    /\ ConflictingNetworks(last.input[2]) = {2}
    /\ last.res = "BadRequest"
    /\ last.input[1] \in device
    /\ Cardinality(device) > 1

\* C20: after any interleaving of add_device and modify_device requests no
\* two stored devices have the same public key.
C20_UniqueKeys ==
    \A d1, d2 \in device :
        d1.wireguard_pubkey = d2.wireguard_pubkey => d1.id = d2.id

\* C21: a poisoned gateway-state lock is never fatal to a handler: no request
\* ends in a panic at lock().
C21_PoisonedLockStillServes ==
    /\ handler.pc # "panicked"
    /\ last.res # "Panic"

\* C22: the lock is not held at any point where a handler suspends: it is
\* held only between its acquisition and the end of the guard's scope, where
\* the handler reads the registry.
C22_NoQueryUnderLock ==
    /\ lock.held => handler.pc \in {"connected", "gateways", "pushed"}
    /\ handler.pc \in {"idle", "groups", "lock", "respond", "panicked"} => ~lock.held

\* list_networks is about to query the allowed groups of the second network,
\* having released the lock it took for the first.
C22_Witness ==
    /\ handler.op = "list_networks"
    /\ handler.pc = "groups"
    /\ handler.network_id = 2
    /\ ~lock.held
    /\ gateway_state # {}

\* The network has no handle with the id.
Absent(state, network_id, text) ==
    \A h \in GetNetworkGatewayStatus(state, network_id) : h.uid # text

\* C23: remove_gateway for an id without a handle in the network fails with
\* NotFound and leaves the registry as it was; a removal takes the handle
\* out of the network's list and touches no other handle.
C23_RemoveAbsentIsNotFound ==
    (last.op = "remove_gateway" /\ last.res # "Panic") =>
        IF Absent(last.input[1].before, last.network, last.input[1].gateway_id)
        THEN /\ last.res = "NotFound"
             /\ gateway_state = last.input[1].before
        ELSE /\ last.res = "Ok"
             /\ Absent(gateway_state, last.network, last.input[1].gateway_id)
             /\ \A h \in last.input[1].before :
                    (h.network_id # last.network \/ h.uid # last.input[1].gateway_id)
                        => h \in gateway_state
             /\ gateway_state \subseteq last.input[1].before

\* C24: in every WireguardNetworkInfo built by list_networks or
\* network_details the connected flag is true iff the gateways list of the
\* same element has a handle marked connected.
C24_ConnectedMatchesGateways ==
    handler.pc = "pushed" =>
        (handler.connected <=> \E h \in handler.gateways : h.connected)

\* list_networks built the element of network 2 with one connected and one
\* disconnected gateway.
C24_Witness ==
    /\ handler.op = "list_networks"
    /\ handler.pc = "pushed"
    /\ handler.network_id = 2
    /\ handler.connected
    /\ \E h \in handler.gateways : h.connected
    /\ \E h \in handler.gateways : ~h.connected

\* The age of the latest handshake of a from_device call, as a sequence:
\* empty when there is none.
HandshakeAge ==
    IF last.input[2].latest_handshake = <<>>
    THEN <<>>
    ELSE <<last.input[1].now - last.input[2].latest_handshake[1]>>

\* C25: is_active is true iff a latest handshake exists and its age is less
\* than WIREGUARD_MAX_HANDSHAKE; it is false at the threshold, above it and
\* without a handshake.
C25_ActiveBelowThreshold ==
    last.op = "from_device" =>
        /\ HandshakeAge = <<>> => ~last.input[2].is_active
        /\ HandshakeAge # <<>> =>
              /\ HandshakeAge[1] < WIREGUARD_MAX_HANDSHAKE => last.input[2].is_active
              /\ HandshakeAge[1] = WIREGUARD_MAX_HANDSHAKE => ~last.input[2].is_active
              /\ HandshakeAge[1] > WIREGUARD_MAX_HANDSHAKE => ~last.input[2].is_active

\* The last collected row reports a handshake exactly as old as the
\* threshold, an earlier row a fresher one.
C25_Witness ==
    /\ last.op = "from_device"
    /\ HandshakeAge = <<WIREGUARD_MAX_HANDSHAKE>>
    /\ ~last.input[2].is_active
    /\ Cardinality(last.input[1].stats) = 2
    /\ \E r \in last.input[1].stats :
          /\ r.latest_handshake # <<>>
          /\ last.input[1].now - r.latest_handshake[1] < WIREGUARD_MAX_HANDSHAKE

\* The lines of a rendered configuration with a key.
LinesOf(key) == {i \in DOMAIN last.input[2] : last.input[2][i].key = key}

\* C30: the rendered configuration has a DNS line iff dns is present and not
\* empty and an AllowedIPs line iff allowed_ips is not empty; an empty field
\* leaves no line, not even an empty one, so the only empty line is the one
\* before [Peer]; the endpoint is host:port and the keepalive is 300.
C30_EmptyFieldLeavesNoLine ==
    last.op = "create_config" =>
        /\ LinesOf("DNS") # {} <=>
              (last.input[1].dns # <<>> /\ last.input[1].dns[1] # "")
        /\ LinesOf("AllowedIPs") # {} <=> last.input[1].allowed_ips # <<>>
        /\ Cardinality(LinesOf("")) = 1
        /\ \A i \in LinesOf("Endpoint") :
              last.input[2][i].value = <<last.input[1].endpoint, last.input[1].port>>
        /\ \A i \in LinesOf("PersistentKeepalive") : last.input[2][i].value = <<300>>
        /\ Cardinality(LinesOf("Endpoint")) = 1
        /\ Cardinality(LinesOf("PersistentKeepalive")) = 1

\* The place of an event in the dispatched sequence, 0 when it is not there.
Dispatch(event) ==
    IF \E i \in DOMAIN events : events[i] = event
    THEN Min({i \in DOMAIN events : events[i] = event})
    ELSE 0

\* C26: within one import_network request the dispatcher receives
\* NetworkCreated first, then the events handle_imported_devices returned in
\* their order, then the events sync_allowed_devices returned in their order;
\* a request whose sync fails has sent the first two parts only.
C26_ImportEventsInOrder ==
    last.op = "import_network" =>
        events = IF last.res = "Ok"
                 THEN <<NetworkEvent("NetworkCreated", last.network)>>
                      \o last.returned[1] \o last.returned[2]
                 ELSE <<NetworkEvent("NetworkCreated", last.network)>>
                      \o last.returned[1]

\* An import that linked an imported device and added a synced one.
C26_Witness ==
    /\ last.op = "import_network"
    /\ last.res = "Ok"
    /\ Len(last.returned[1]) >= 1
    /\ Len(last.returned[2]) >= 1
    /\ Len(events) >= 3

\* The events sync_allowed_devices returned to the handler that has just run.
SyncReturned ==
    IF last.op = "modify_network" THEN last.returned
    ELSE IF last.op = "import_network" THEN last.returned[2]
    ELSE <<>>

\* C27: every event sync_allowed_devices returned to modify_network or to
\* import_network, in a request that succeeded, is among the events the
\* handler handed to the dispatcher.
C27_SyncEventsDispatched ==
    last.res = "Ok" =>
        \A i \in DOMAIN SyncReturned : Dispatch(SyncReturned[i]) # 0

\* The members the evaluator finds in a location once the request is done.
MembersNow(location_id) ==
    {r.device_id : r \in AllForNetwork(wireguard_network_device, location_id)}

\* C28: a successful add_device or delete_device dispatches a batch that ends
\* with DeviceCreated, respectively DeviceDeleted, of the device; all events
\* before it are FirewallConfigChanged of affected networks; an affected
\* network has one exactly when the evaluator returns a configuration for it;
\* and each configuration is that of the membership after the change.
C28_FirewallAfterMembership ==
    last.op \in {"add_device", "delete_device"} /\ last.res = "Ok" =>
        /\ events # <<>>
        /\ events[Len(events)] =
               DeviceEvent(IF last.op = "add_device"
                           THEN "DeviceCreated" ELSE "DeviceDeleted",
                           last.input[1], last.returned)
        /\ \A i \in 1..(Len(events) - 1) :
               /\ events[i].event = "FirewallConfigChanged"
               /\ events[i].network \in SeqToSet(last.returned)
               /\ events[i].firewall_config.members = MembersNow(events[i].network)
               /\ last.input[1].id \in events[i].firewall_config.members
                      <=> last.op = "add_device"
        /\ \A n \in SeqToSet(last.returned) :
               n \in last.acl
                   <=> \E i \in 1..(Len(events) - 1) : events[i].network = n
        /\ \A i, j \in 1..(Len(events) - 1) :
               events[i].network = events[j].network => i = j

\* A device added to two networks, of which one has ACL on.
C28_Witness ==
    /\ last.op = "add_device"
    /\ last.res = "Ok"
    /\ Len(last.returned) = 2
    /\ Cardinality(last.acl) = 1
    /\ Len(events) = 2
    /\ events[1].event = "FirewallConfigChanged"

\* C29: no event modify_device or delete_device dispatches has a device whose
\* configured flag is false as its subject.
C29_UnconfiguredWithheld ==
    last.op \in {"modify_device", "delete_device"} =>
        \A i \in DOMAIN events :
            events[i].event \in {"DeviceModified", "DeviceDeleted"}
                => events[i].device.configured

\* The addresses of the first block new_with_ip may give, by the tables as
\* they were: hosts of the block other than the interface address that no
\* link of the network held.
FreeHosts ==
    LET address == wireguard_network[last.network].address
    IN  IF address = <<>>
        THEN {}
        ELSE {ip \in Hosts(address[1]) :
                 /\ ip # address[1].ip
                 /\ \A r \in AllForNetwork(last.input[1].wireguard_network_device,
                                           last.network) :
                        ip \notin SeqToSet(r.wireguard_ips)}

\* C31: new_with_ip never gives the network's own interface address: it
\* gives the lowest free host address other than it, to a new device with a
\* new link, and when there is none it returns CannotCreate and creates
\* neither a device nor a link. In a /30 whose interface address is a host
\* address the first device gets the other host address and every later call
\* fails.
C31_InterfaceAddressNotAssigned ==
    /\ \A r \in wireguard_network_device :
           \A i \in DOMAIN wireguard_network[r.wireguard_network_id].address :
               wireguard_network[r.wireguard_network_id].address[i].ip
                   \notin SeqToSet(r.wireguard_ips)
    /\ last.op = "new_with_ip" =>
           IF FreeHosts = {}
           THEN /\ last.res = "CannotCreate"
                /\ device = last.input[1].device
                /\ wireguard_network_device = last.input[1].wireguard_network_device
           ELSE /\ last.res = "Ok"
                /\ last.input[2][2].wireguard_ips = <<Min(FreeHosts)>>
                /\ device = last.input[1].device \cup {last.input[2][1]}
                /\ last.input[2][1] \notin last.input[1].device
                /\ wireguard_network_device =
                       last.input[1].wireguard_network_device \cup {last.input[2][2]}

\* The /30 whose interface address is its first host: one device holds the
\* second host and a further call has just failed.
C31_Witness ==
    /\ last.op = "new_with_ip"
    /\ last.res = "CannotCreate"
    /\ wireguard_network[1].address = <<[network |-> 0, size |-> 4, ip |-> 1]>>
    /\ Cardinality(device) = 1
    /\ \E r \in wireguard_network_device : r.wireguard_ips = <<2>>

\* The stored device with an id.
Owner(device_id) == CHOOSE dev \in device : dev.id = device_id

\* C32: all_for_network_and_user(network, user) returns exactly the stored
\* links of that network whose device is of type User and owned by the user:
\* a link in another network, of another user's device or of a Network
\* device is not returned, and every other link is.
C32_UserLinksOfNetwork ==
    last.op = "all_for_network_and_user" =>
        /\ last.input[2] \subseteq wireguard_network_device
        /\ \A r \in wireguard_network_device :
               r \in last.input[2]
                   <=> /\ r.wireguard_network_id = last.network
                       /\ Owner(r.device_id).user_id = last.input[1]
                       /\ Owner(r.device_id).device_type = "user"

\* The store of the test: the user has a device linked in both networks and a
\* Network device linked in the network asked for, where another user's
\* device is linked too; the call returns the one link.
C32_Witness ==
    /\ last.op = "all_for_network_and_user"
    /\ Cardinality(last.input[2]) = 1
    /\ \E a, b, c \in wireguard_network_device :
          /\ a.wireguard_network_id # last.network
          /\ Owner(a.device_id).user_id = last.input[1]
          /\ Owner(a.device_id).device_type = "user"
          /\ b.wireguard_network_id = last.network
          /\ Owner(b.device_id).user_id # last.input[1]
          /\ c.wireguard_network_id = last.network
          /\ Owner(c.device_id).user_id = last.input[1]
          /\ Owner(c.device_id).device_type = "network"

\* C33: a request whose transaction is rolled back has dispatched no gateway
\* event: when a handler that sends events returns an error, nothing has
\* reached the dispatcher.
C33_NoEventWithoutCommit ==
    /\ last.op \in {"modify_network", "import_network", "add_device", "delete_device"}
    /\ last.res # "Ok"
    => events = <<>>

\* The link stored for the pair the allocator has just run for.
StoredNow ==
    Find(wireguard_network_device, last.calls[1].device, last.calls[1].network)

\* C34: when assign_next_network_ip or assign_network_ips succeeds for a
\* device that had a link in the network, the stored link keeps its
\* preshared_key and authorized_at, takes the addresses and the is_authorized
\* flag of the new link, and the link returned to the caller equals the link
\* stored for the pair.
C34_ReturnedLinkIsStored ==
    /\ last.op \in {"assign_next_network_ip", "assign_network_ips"}
    /\ last.res = "Ok"
    /\ last.input[1] # <<>>
    => \A r \in StoredNow :
           /\ r.preshared_key = last.input[1][1].preshared_key
           /\ r.authorized_at = last.input[1][1].authorized_at
           /\ r.wireguard_ips = last.input[2][1].wireguard_ips
           /\ r.is_authorized = last.input[2][1].is_authorized
           /\ last.input[2][1] = r

\* C35: add_to_all_networks returns one membership descriptor and one
\* rendered configuration for each network joined in the call, in the order
\* in which the networks were visited and with the network ids matching, and
\* none for a network it skipped; the descriptors carry the addresses of the
\* stored links, and the DeviceCreated event of add_device carries exactly the
\* links stored for the new device at commit.
JoinedCalls == SelectSeq(last.calls, LAMBDA c : c.res = "Ok")

C35_DescriptorPerJoinedNetwork ==
    (Joined /\ last.res = "Ok") =>
        /\ Len(last.network_info) = Len(JoinedCalls)
        /\ Len(last.configs) = Len(JoinedCalls)
        /\ \A i \in DOMAIN JoinedCalls :
              /\ last.network_info[i].network_id = JoinedCalls[i].network
              /\ last.configs[i].network_id = JoinedCalls[i].network
              /\ last.network_info[i].device_wireguard_ips = JoinedCalls[i].ips
              /\ last.configs[i].address = JoinedCalls[i].ips
              /\ \E l \in Find(wireguard_network_device, last.input[1].id,
                               JoinedCalls[i].network) :
                     /\ l.wireguard_ips = last.network_info[i].device_wireguard_ips
                     /\ l.preshared_key = last.network_info[i].preshared_key
                     /\ l.is_authorized = last.network_info[i].is_authorized
        /\ \A i, j \in DOMAIN last.network_info :
              i < j => last.network_info[i].network_id < last.network_info[j].network_id
        /\ last.op = "add_device" =>
              /\ Len(events) = 1
              /\ events[1].event = "DeviceCreated"
              /\ {<<e.network_id, e.device_wireguard_ips>> :
                      e \in SeqToSet(events[1].network_info)}
                  = {<<l.wireguard_network_id, l.wireguard_ips>> :
                        l \in {x \in wireguard_network_device :
                                  x.device_id = last.input[1].id}}

\* add_device joined two networks, or skipped the first and joined the second.
C35_Witness ==
    /\ Joined
    /\ last.op = "add_device"
    /\ last.res = "Ok"
    /\ Len(last.calls) = 2
    /\ last.calls[2].res = "Ok"
    /\ Len(last.network_info) = 2
    /\ last.network_info[1].network_id = 1
    /\ last.configs[2].network_id = 2
    /\ Len(events) = 1

\* C36: delete_network removes the network and every Network-type device
\* linked to it in one transaction, leaves the User-type devices and all other
\* networks unchanged, and dispatches NetworkDeleted only after the
\* transaction has committed; a request whose deletion fails changes nothing
\* and dispatches no NetworkDeleted.
NetworkDeletedSent(evs, network_id) ==
    \E i \in DOMAIN evs : evs[i] = NetworkEvent("NetworkDeleted", network_id)

C36_DeleteNetworkCommitsThenDispatches ==
    [][(last = Idle /\ last'.op = "delete_network") =>
          \E gone \in {{dev \in device :
                           /\ dev.device_type = "network"
                           /\ Find(wireguard_network_device, dev.id,
                                   last'.network) # {}}} :
             IF last'.network \in DOMAIN wireguard_network
                /\ last'.network \notin DOMAIN wireguard_network'
             THEN /\ DOMAIN wireguard_network' = DOMAIN wireguard_network \ {last'.network}
                  /\ \A n \in DOMAIN wireguard_network' :
                        wireguard_network'[n] = wireguard_network[n]
                  /\ device' = device \ gone
                  /\ {dev \in device' : dev.device_type = "user"}
                         = {dev \in device : dev.device_type = "user"}
                  /\ wireguard_network_device' =
                         {r \in wireguard_network_device :
                             /\ r.wireguard_network_id # last'.network
                             /\ r.device_id \notin {dev.id : dev \in gone}}
                  /\ events' = <<NetworkEvent("NetworkDeleted", last'.network)>>
             ELSE /\ UNCHANGED <<wireguard_network, device, wireguard_network_device>>
                  /\ ~NetworkDeletedSent(events', last'.network)
                  /\ last'.res # "Ok"]_vars

\* A network with a User device and a Network device linked to it was
\* deleted: the Network device is gone, the User device is stored, the other
\* network is stored and the event was sent.
C36_Witness ==
    /\ last.op = "delete_network"
    /\ last.res = "Ok"
    /\ last.network = 1
    /\ DOMAIN wireguard_network = {2}
    /\ \A dev \in device : dev.device_type = "user"
    /\ Cardinality(device) = NumDevices - 1
    /\ \E r \in wireguard_network_device : r.wireguard_network_id = 2
    /\ events = <<NetworkEvent("NetworkDeleted", 1)>>

\* C37: add_device creates nothing and dispatches no gateway event when a
\* precondition fails: no networks exist (400), the target user is disabled
\* and the caller is not an admin (403), the public key is not valid, or a
\* device with the same public key already exists; the stored devices and
\* links are then unchanged.
FailedPreconditions(req) ==
    {code \in {"BadRequest", "Forbidden", "PubkeyValidation", "PubkeyExists"} :
        \/ code = "BadRequest" /\ wireguard_network = <<>>
        \/ code = "Forbidden" /\ ~req.is_active /\ ~req.is_admin
        \/ code = "PubkeyValidation" /\ req.decoded # "KEY_LENGTH"
        \/ code = "PubkeyExists"
              /\ \E dev \in device : dev.wireguard_pubkey = req.wireguard_pubkey}

C37_FailedPreconditionCreatesNothing ==
    [][(/\ last = Idle
        /\ last'.op = "add_device"
        /\ FailedPreconditions(last'.input[2]) # {}) =>
          /\ UNCHANGED <<device, wireguard_network_device>>
          /\ events' = <<>>
          /\ \/ last'.res \in FailedPreconditions(last'.input[2])
             \/ /\ last'.res \in {"Forbidden", "ObjectNotFound"}
                /\ UserForAdminOrSelf(last'.input[2]) = last'.res]_vars

\* A request with a key that decodes to too few bytes, for an active user
\* and with a network to join, was refused after an earlier device was
\* stored.
C37_Witness ==
    /\ last.op = "add_device"
    /\ last.res = "PubkeyValidation"
    /\ last.input[2].decoded = "short"
    /\ last.input[2].is_active
    /\ wireguard_network # <<>>
    /\ device # {}
    /\ last.input[1] \notin device
    /\ events = <<>>

\* C38: device_for_admin_or_self returns a device only to an admin session
\* or to the session of the device's owner; to a session that is not an
\* admin's a device of another user is answered as an id of no device is, so
\* modify_device, get_device, delete_device and download_config do nothing
\* to, and show nothing of, the device of another user.
SessionHandlers == {"get_device", "modify_device", "delete_device", "download_config"}

OwnedBy(session, id) ==
    \E dev \in device, u \in UserTable :
        /\ dev.id = id
        /\ u.id = dev.user_id
        /\ u.username = session.username

C38_OnlyAdminOrOwner ==
    [][(last = Idle /\ last'.op \in SessionHandlers) =>
          \E session \in {last'.input[1]}, id \in {last'.input[2]} :
             /\ (~session.is_admin /\ ~OwnedBy(session, id)) =>
                   /\ UNCHANGED <<device, wireguard_network_device>>
                   /\ events' = <<>>
                   /\ last'.res = "ObjectNotFound"
                   /\ \/ last'.calls = <<DeviceNotFound(id)>>
                      \/ /\ last'.op = "download_config"
                         /\ last'.network \notin DOMAIN wireguard_network
                         /\ last'.calls[1].msg = "network not found"
             /\ (last'.res = "Ok" \/ <<device, wireguard_network_device>>'
                                       # <<device, wireguard_network_device>>) =>
                   (session.is_admin \/ OwnedBy(session, id))]_vars

\* A session that is not an admin's asked to delete a linked device of
\* another user and was answered that no device has the id.
C38_Witness ==
    /\ last.op = "delete_device"
    /\ last.res = "ObjectNotFound"
    /\ ~last.input[1].is_admin
    /\ \E dev \in device :
          /\ dev.id = last.input[2]
          /\ dev.device_type = "user"
          /\ ~OwnedBy(last.input[1], dev.id)
          /\ Find(wireguard_network_device, dev.id, 1) # {}
    /\ events = <<>>

\* C39: get_aggregation returns Hour when `from` is at least 6 hours before
\* now, and Minute for every other `from`.
C39_HourOrMinute ==
    last.op = "get_aggregation" =>
        last.input[2] =
            [res |-> "Ok",
             aggregation |-> IF last.input[1].from + Hours(6) <= last.input[1].now
                             THEN "Hour" ELSE "Minute"]

====
